---------------------------- MODULE Spec2Model ----------------------------
(***************************************************************************)
(* Model of the cryptographic core of secure-secret-sharing:               *)
(*   src/src/crypto/shamir.py   (ShamirSecretSharing)                      *)
(*   src/src/crypto/security.py (SecurityValidator)                        *)
(*                                                                         *)
(* Python values are modelled as follows.                                  *)
(*   bytes / bytearray / list of int : a sequence of integers              *)
(*   str                             : a sequence of code points           *)
(*   int (arbitrary precision)       : a machine integer where the code    *)
(*       keeps it small, and a big-endian sequence of base-2^24 digits     *)
(*       without leading zero (<<>> is 0) for the Base62 big integers      *)
(*   a raised exception              : a record [ok |-> FALSE, exc, msg]   *)
(***************************************************************************)
EXTENDS Integers, Sequences, FiniteSets, TLC

(***************************************************************************)
(* Bit operations on non-negative Python ints.                             *)
(***************************************************************************)
\* The sequence with the elements of f, written out as a list.  A sequence
\* built by a function constructor is evaluated element by element on every
\* access; a list is evaluated once.
List(f) == <<>> \o f

RECURSIVE XorBits(_, _)
XorBits(a, b) ==
    IF a = 0 THEN b
    ELSE IF b = 0 THEN a
    ELSE ((a + b) % 2) + 2 * XorBits(a \div 2, b \div 2)

\* a ^ b
Xor(a, b) == XorBits(a, b)

(***************************************************************************)
(* GF(256) arithmetic: shamir.py lines 19-82.                              *)
(***************************************************************************)
VARIABLES
    exp_table,            \* ShamirSecretSharing._exp_table
    log_table             \* ShamirSecretSharing._log_table

POLYNOMIAL == 283   \* 0x11b

\* _gf_mult_basic: the while loop, one iteration per call.
RECURSIVE GfMultBasicLoop(_, _, _)
GfMultBasicLoop(a, b, result) ==
    IF b = 0 THEN result % 256
    ELSE LET r1 == IF b % 2 = 1 THEN XorBits(result, a) ELSE result
             a1 == a * 2
             a2 == IF (a1 \div 256) % 2 = 1 THEN XorBits(a1, POLYNOMIAL) ELSE a1
         IN  GfMultBasicLoop(a2, b \div 2, r1)

gf_mult_basic(a, b) == GfMultBasicLoop(a, b, 0)

\* _build_tables, first loop: exp[i] = 3^i for i in 0..254, exp[255] = exp[0].
\* ExpPowers(x, n) is the n values the loop stores from the value x on; the
\* range is halved so that the evaluation stays shallow.
RECURSIVE ExpPowersOfTwo(_, _)
RECURSIVE ExpPowers(_, _)
\* fault: 2 taken as the primitive element
ExpPowersOfTwo(x, n) ==
    IF n = 1 THEN <<x>>
    ELSE LET h     == n \div 2
             left  == ExpPowersOfTwo(x, h)
             right == ExpPowersOfTwo(gf_mult_basic(left[h], 2), n - h)
         IN  left \o right

ExpPowers(x, n) ==
    IF n = 1 THEN <<x>>
    ELSE LET h     == n \div 2
             left  == ExpPowers(x, h)
             right == ExpPowers(gf_mult_basic(left[h], 3), n - h)
         IN  left \o right

\* self._exp_table after _build_tables
BuildExpTable ==
    LET powers == ExpPowers(1, 255)
    IN  [i \in 0..255 |-> IF i = 255 THEN powers[1] ELSE powers[i + 1]]

\* _build_tables, second loop: log[exp[i]] = i in increasing i (a later i
\* overwrites an earlier one), every other entry stays 0.
BuildLogTable(exp) ==
    [v \in 0..255 |->
        LET hits == {i \in 0..254 : exp[i] = v}
        IN  IF hits = {} THEN 0
            ELSE CHOOSE i \in hits : \A j \in hits : j <= i]

\* self._log_table[a]: a negative index counts from the end of the list
LogAt(a) == log_table[IF a < 0 THEN a + 256 ELSE a]

\* fault: the sum of the logarithms reduced modulo 256
gf_mult_mod_256(a, b) ==
    IF a = 0 \/ b = 0 THEN 0
    ELSE exp_table[(LogAt(a) + LogAt(b)) % 256]

gf_mult(a, b) ==
    IF a = 0 \/ b = 0 THEN 0
    ELSE exp_table[(LogAt(a) + LogAt(b)) % 255]

\* _gf_div raises ValueError("Division by zero in GF(256)"); the interpolation
\* divides by xi ^ xj after it has found xi # xj, so never where this holds
GfDivRaises(a, b) == a # 0 /\ b = 0

\* fault: the logarithms added, as in _gf_mult
gf_div_added(a, b) ==
    IF a = 0 THEN 0
    ELSE exp_table[(LogAt(a) + LogAt(b)) % 255]

\* _gf_div where it does not raise.  Python's % is non-negative for a positive
\* modulus, as is TLA+'s.
gf_div(a, b) ==
    IF a = 0 THEN 0
    ELSE exp_table[(LogAt(a) - LogAt(b)) % 255]

\* _gf_div as its caller sees it
GfDivOutcome(a, b) ==
    IF GfDivRaises(a, b)
    THEN [ok |-> FALSE, exc |-> "ValueError", msg |-> "Division by zero in GF(256)"]
    ELSE [ok |-> TRUE, value |-> gf_div(a, b)]

\* _evaluate_polynomial: Horner from the highest coefficient down.
RECURSIVE HornerLoop(_, _, _, _)
HornerLoop(coefficients, x, k, result) ==
    IF k = 0 THEN result
    ELSE HornerLoop(coefficients, x, k - 1,
                    Xor(gf_mult(result, x), coefficients[k]))

\* fault: the coefficients taken in list order, the reversal left out
RECURSIVE HornerForward(_, _, _, _)
HornerForward(coefficients, x, k, result) ==
    IF k > Len(coefficients) THEN result
    ELSE HornerForward(coefficients, x, k + 1,
                       Xor(gf_mult(result, x), coefficients[k]))

evaluate_polynomial_forward(coefficients, x) ==
    HornerForward(coefficients, x, 1, 0)

evaluate_polynomial(coefficients, x) ==
    HornerLoop(coefficients, x, Len(coefficients), 0)

\* _lagrange_interpolation raises on equal x-coordinates: the check at
\* line 108 comes before every division, so it is met first
HasDuplicateX(points) ==
    \E i, j \in 1..Len(points) : i # j /\ points[i][1] = points[j][1]

\* the inner loop: L_i(x) as the product over j # i of (x ^ xj) / (xi ^ xj)
RECURSIVE LagrangeBasis(_, _, _, _, _)
LagrangeBasis(points, x, i, j, li) ==
    IF j > Len(points) THEN li
    ELSE IF i = j THEN LagrangeBasis(points, x, i, j + 1, li)
    ELSE LET numerator   == Xor(x, points[j][1])
             denominator == Xor(points[i][1], points[j][1])
         IN  LagrangeBasis(points, x, i, j + 1,
                           gf_mult(li, gf_div(numerator, denominator)))

\* the outer loop: result ^= yi * L_i(x)
RECURSIVE LagrangeSum(_, _, _, _)
LagrangeSum(points, x, i, result) ==
    IF i > Len(points) THEN result
    ELSE LagrangeSum(points, x, i + 1,
             Xor(result, gf_mult(points[i][2], LagrangeBasis(points, x, i, 1, 1))))

\* fault: the test xi == xj of line 108 left out, so that every pair is divided
GfDivCallsUnchecked(points, x) ==
    {<<Xor(x, points[j][1]), Xor(points[i][1], points[j][1])>> :
        <<i, j>> \in {p \in (1..Len(points)) \X (1..Len(points)) : p[1] # p[2]}}

\* the (numerator, denominator) pairs that the loops of lines 100-114 pass to
\* _gf_div: those of the pairs i # j that come, in the order of the loops,
\* before the first pair with xi == xj, where line 108 raises
GfDivCalls(points, x) ==
    LET n     == Len(points)
        pairs == {p \in (1..n) \X (1..n) : p[1] # p[2]}
        equal == {p \in pairs : points[p[1]][1] = points[p[2]][1]}
        At(p) == (p[1] - 1) * n + p[2]
    IN  {<<Xor(x, points[p[2]][1]), Xor(points[p[1]][1], points[p[2]][1])>> :
            p \in {q \in pairs : \A e \in equal : At(q) < At(e)}}

\* _lagrange_interpolation: shamir.py lines 84-118
lagrange_interpolation(points, x) ==
    IF points = <<>>
    THEN [ok |-> FALSE, exc |-> "ValueError",
          msg |-> "No points provided for interpolation"]
    ELSE IF \E c \in GfDivCalls(points, x) : GfDivRaises(c[1], c[2])
    THEN [ok |-> FALSE, exc |-> "ValueError",
          msg |-> "Division by zero in GF(256)"]
    ELSE IF HasDuplicateX(points)
    THEN [ok |-> FALSE, exc |-> "ValueError",
          msg |-> "Duplicate x-coordinates in interpolation points"]
    ELSE [ok |-> TRUE, value |-> LagrangeSum(points, x, 1, 0)]

(***************************************************************************)
(* Base62 codec: shamir.py lines 22-23 and 120-170.                        *)
(***************************************************************************)
\* "0123456789ABCDEFGHIJKLMNOPQRSTUVWXYZabcdefghijklmnopqrstuvwxyz" as code points
BASE62_ALPHABET ==
    [i \in 1..62 |-> IF i <= 10 THEN 47 + i
                     ELSE IF i <= 36 THEN 54 + i
                     ELSE 60 + i]

Base62Chars == {BASE62_ALPHABET[i] : i \in 1..62}

\* fault: the index of a lower-case letter one too high
AlphabetIndexShifted(char) ==
    IF char <= 57 THEN char - 48
    ELSE IF char <= 90 THEN char - 55
    ELSE char - 60

\* _BASE62_ALPHABET.index(char) for a char of the alphabet
AlphabetIndex(char) ==
    IF char <= 57 THEN char - 48
    ELSE IF char <= 90 THEN char - 55
    ELSE char - 61

\* The digit base of the big integers: three bytes per digit.
LIMB == 256 * 256 * 256

RECURSIVE StripZeros(_)
StripZeros(d) ==
    IF d = <<>> THEN d
    ELSE IF d[1] = 0 THEN StripZeros(Tail(d))
    ELSE d

\* int.from_bytes(data, 'big')
IntFromBytes(data) ==
    LET n      == Len(data)
        k      == (n + 2) \div 3
        pad    == 3 * k - n
        B(i)   == IF i <= pad THEN 0 ELSE data[i - pad]
    IN  StripZeros(List([j \in 1..k |->
                       B(3 * j - 2) * 65536 + B(3 * j - 1) * 256 + B(3 * j)]))

\* num.to_bytes((num.bit_length() + 7) // 8, 'big') for num > 0: the bytes of
\* the digits without the leading zero bytes of the first digit
IntToBytes(num) ==
    LET k    == Len(num)
        top  == num[1]
        lead == IF top >= 65536 THEN 0 ELSE IF top >= 256 THEN 1 ELSE 2
        B(i) == LET j == ((i - 1) \div 3) + 1
                    r == (i - 1) % 3
                IN  IF r = 0 THEN num[j] \div 65536
                    ELSE IF r = 1 THEN (num[j] \div 256) % 256
                    ELSE num[j] % 256
    IN  List([i \in 1..(3 * k - lead) |-> B(i + lead)])

\* One pass of num // 62 and num % 62 over the digits lo..hi of d, entered with
\* the remainder rem of the digits before lo: <<quotient digits, remainder>>.
\* The range is halved so that the evaluation depth stays logarithmic.
RECURSIVE DivMod62Range(_, _, _, _)
DivMod62Range(d, lo, hi, rem) ==
    IF lo > hi THEN <<(<<>>), rem>>
    ELSE IF lo = hi
    THEN LET cur == rem * LIMB + d[lo]
         IN  <<(<<cur \div 62>>), cur % 62>>
    ELSE LET mid   == (lo + hi) \div 2
             left  == DivMod62Range(d, lo, mid, rem)
             right == DivMod62Range(d, mid + 1, hi, left[2])
         IN  <<left[1] \o right[1], right[2]>>

\* One iteration of "while num > 0: result = ALPHABET[num % 62] + result;
\* num //= 62" on st = <<num, result>>; the identity once num = 0.
EncodeStep(st) ==
    IF st[1] = <<>> THEN st
    ELSE LET qr == DivMod62Range(st[1], 1, Len(st[1]), 0)
         IN  <<StripZeros(qr[1]), <<BASE62_ALPHABET[qr[2] + 1]>> \o st[2]>>

\* n iterations of EncodeStep
RECURSIVE EncodeIterate(_, _)
EncodeIterate(st, n) ==
    IF n = 0 THEN st
    ELSE IF n = 1 THEN EncodeStep(st)
    ELSE LET half == EncodeIterate(st, n \div 2)
         IN  IF half[1] = <<>> THEN half
             ELSE EncodeIterate(half, n - (n \div 2))

\* _encode_base62.  A number of k bytes has at most 2k base-62 digits, so 2k
\* iterations run the while loop to its end.
encode_base62(data) ==
    IF data = <<>> THEN <<>>
    ELSE LET num == IntFromBytes(data)
         IN  IF num = <<>> THEN <<BASE62_ALPHABET[1]>>
             ELSE EncodeIterate(<<num, <<>>>>, 2 * Len(data))[2]

\* num * 62 + carry over the digits lo..hi of d, d holding the least
\* significant digit first: <<digits, carry out>>.
RECURSIVE MulAdd62Range(_, _, _, _)
MulAdd62Range(d, lo, hi, carry) ==
    IF lo > hi THEN <<(<<>>), carry>>
    ELSE IF lo = hi
    THEN LET cur == d[lo] * 62 + carry
         IN  <<(<<cur % LIMB>>), cur \div LIMB>>
    ELSE LET mid   == (lo + hi) \div 2
             left  == MulAdd62Range(d, lo, mid, carry)
             right == MulAdd62Range(d, mid + 1, hi, left[2])
         IN  <<left[1] \o right[1], right[2]>>

\* num * 62 + digit, least significant digit first
MulAdd62(num, digit) ==
    LET r == MulAdd62Range(num, 1, Len(num), digit)
    IN  IF r[2] = 0 THEN r[1] ELSE Append(r[1], r[2])

\* "for char in encoded: num = num * 62 + ALPHABET.index(char)" over the
\* characters lo..hi
RECURSIVE DecodeRange(_, _, _, _)
DecodeRange(encoded, lo, hi, num) ==
    IF lo > hi THEN num
    ELSE IF lo = hi THEN MulAdd62(num, AlphabetIndex(encoded[lo]))
    ELSE LET mid  == (lo + hi) \div 2
             left == DecodeRange(encoded, lo, mid, num)
         IN  IF Len(left) >= 0
             THEN DecodeRange(encoded, mid + 1, hi, left)
             ELSE left

Reverse(s) == List([i \in 1..Len(s) |-> s[Len(s) + 1 - i]])

\* _decode_base62 raises ValueError("Invalid Base62 character")
DecodeRaises(encoded) == \E i \in 1..Len(encoded) : encoded[i] \notin Base62Chars

\* _decode_base62 when no character is outside the alphabet
decode_base62(encoded) ==
    IF encoded = <<>> THEN <<>>
    ELSE LET num == DecodeRange(encoded, 1, Len(encoded), <<>>)
         IN  IF num = <<>> THEN <<0>> ELSE IntToBytes(Reverse(num))

(***************************************************************************)
(* Python values and outcomes.                                             *)
(***************************************************************************)
\* A value is its type and a sequence: the code points of a str, the bytes of
\* a bytes, the one number of an int, bool or float.
PyInt(n)   == [t |-> "int", v |-> <<n>>]
PyBool(n)  == [t |-> "bool", v |-> <<n>>]    \* True is 1, False is 0
PyFloat(n) == [t |-> "float", v |-> <<n>>]   \* the float n + 0.5
PyStr(cs)  == [t |-> "str", v |-> cs]
PyBytes(b) == [t |-> "bytes", v |-> b]
PyNone     == [t |-> "NoneType", v |-> <<>>]

\* the number of an int or bool
IntOf(x) == x.v[1]

\* isinstance(x, int): bool is a subclass of int
IsInstanceInt(x) == x.t \in {"int", "bool"}
IsInstanceStr(x) == x.t = "str"


\* Python slicing s[a:b] on a sequence, for 0 <= a
Slice(s, a, b) ==
    LET hi == IF b > Len(s) THEN Len(s) ELSE b
    IN  IF hi <= a THEN <<>> ELSE List([i \in 1..(hi - a) |-> s[a + i]])

(***************************************************************************)
(* SecurityValidator: security.py.                                         *)
(*                                                                         *)
(* The operating system's random source is a tape: the n-th call of        *)
(* secure_random_int(1, 255) made during an operation returns the n-th     *)
(* value of the tape, a value of 1..255 (secrets.randbelow(255) + 1).  A   *)
(* tape is given by a finite sequence that repeats.  fail_at is the number *)
(* of the first call whose verify_csprng() returns False (0: none).        *)
(***************************************************************************)
RandomIntRange(min_val, max_val) == min_val..max_val

TapeValue(tape, n) == tape[((n - 1) % Len(tape)) + 1]

CsprngUnavailable ==
    "Cryptographically secure random number generator not available"

\* the length of the two test draws of verify_csprng
TokenLength == 32

\* verify_csprng on a source, which is what the two secrets.token_bytes(32)
\* calls of the test do: raise, or return first and second
verify_csprng(source) ==
    /\ ~source.raises
    /\ Len(source.first) = TokenLength
    /\ source.first # source.second

\* secure_random_bytes(length), token being what secrets.token_bytes(length)
\* returns
secure_random_bytes(length, source, token) ==
    IF ~verify_csprng(source)
    THEN [ok |-> FALSE, exc |-> "SecurityError", msg |-> CsprngUnavailable]
    ELSE [ok |-> TRUE, value |-> token]

\* fault: the lower bound returned when the self-test fails
secure_random_int_fallback(min_val, max_val, source, below) ==
    IF ~verify_csprng(source)
    THEN [ok |-> TRUE, value |-> min_val]
    ELSE [ok |-> TRUE, value |-> below + min_val]

\* secure_random_int(min_val, max_val), below being what
\* secrets.randbelow(max_val - min_val + 1) returns
secure_random_int(min_val, max_val, source, below) ==
    IF ~verify_csprng(source)
    THEN [ok |-> FALSE, exc |-> "SecurityError", msg |-> CsprngUnavailable]
    ELSE [ok |-> TRUE, value |-> below + min_val]

\* fault: a threshold of 1 let through
validate_share_parameters_from_one(total_shares, threshold) ==
    IF ~IsInstanceInt(total_shares) \/ ~IsInstanceInt(threshold)
    THEN <<FALSE, "Share parameters must be integers">>
    ELSE IF IntOf(total_shares) < 2
    THEN <<FALSE, "Total shares must be at least 2">>
    ELSE IF IntOf(total_shares) > 255
    THEN <<FALSE, "Total shares cannot exceed 255">>
    ELSE IF IntOf(threshold) < 1
    THEN <<FALSE, "Threshold must be at least 2">>
    ELSE IF IntOf(threshold) > IntOf(total_shares)
    THEN <<FALSE, "Threshold cannot exceed total shares">>
    ELSE <<TRUE, "">>

\* validate_share_parameters: security.py lines 158-184
validate_share_parameters(total_shares, threshold) ==
    IF ~IsInstanceInt(total_shares) \/ ~IsInstanceInt(threshold)
    THEN <<FALSE, "Share parameters must be integers">>
    ELSE IF IntOf(total_shares) < 2
    THEN <<FALSE, "Total shares must be at least 2">>
    ELSE IF IntOf(total_shares) > 255
    THEN <<FALSE, "Total shares cannot exceed 255">>
    ELSE IF IntOf(threshold) < 2
    THEN <<FALSE, "Threshold must be at least 2">>
    ELSE IF IntOf(threshold) > IntOf(total_shares)
    THEN <<FALSE, "Threshold cannot exceed total shares">>
    ELSE <<TRUE, "">>

NUL == 0

\* fault: the check for NUL left out
validate_secret_length_any_char(secret, min_length, max_length) ==
    IF ~IsInstanceStr(secret)
    THEN <<FALSE, "Secret must be a string">>
    ELSE IF Len(secret.v) < min_length
    THEN <<FALSE, "Secret must be at least {min_length} characters">>
    ELSE IF Len(secret.v) > max_length
    THEN <<FALSE, "Secret cannot exceed {max_length} characters">>
    ELSE <<TRUE, "">>

\* validate_secret_length: security.py lines 186-211.  The messages are
\* f-strings; their text is kept with the placeholders.
validate_secret_length(secret, min_length, max_length) ==
    IF ~IsInstanceStr(secret)
    THEN <<FALSE, "Secret must be a string">>
    ELSE IF Len(secret.v) < min_length
    THEN <<FALSE, "Secret must be at least {min_length} characters">>
    ELSE IF Len(secret.v) > max_length
    THEN <<FALSE, "Secret cannot exceed {max_length} characters">>
    ELSE IF \E i \in 1..Len(secret.v) : secret.v[i] = NUL
    THEN <<FALSE, "Secret cannot contain null bytes">>
    ELSE <<TRUE, "">>

DefaultMinLength == 1
DefaultMaxLength == 50000

(***************************************************************************)
(* UTF-8: str.encode('utf-8') and bytes.decode('utf-8'), both strict.      *)
(***************************************************************************)
IsSurrogate(cp) == cp >= 55296 /\ cp <= 57343

Utf8OfCodePoint(cp) ==
    IF cp < 128 THEN <<cp>>
    ELSE IF cp < 2048 THEN <<192 + (cp \div 64), 128 + (cp % 64)>>
    ELSE IF cp < 65536
    THEN <<224 + (cp \div 4096), 128 + ((cp \div 64) % 64), 128 + (cp % 64)>>
    ELSE <<240 + (cp \div 262144), 128 + ((cp \div 4096) % 64),
           128 + ((cp \div 64) % 64), 128 + (cp % 64)>>

\* secret.encode('utf-8') raises UnicodeEncodeError on a lone surrogate
Utf8EncodeRaises(cs) == \E i \in 1..Len(cs) : IsSurrogate(cs[i])

\* the bytes of the code points lo..hi; the range is halved so that the
\* evaluation stays shallow
RECURSIVE Utf8EncodeRange(_, _, _)
Utf8EncodeRange(cs, lo, hi) ==
    IF lo > hi THEN <<>>
    ELSE IF lo = hi THEN Utf8OfCodePoint(cs[lo])
    ELSE Utf8EncodeRange(cs, lo, (lo + hi) \div 2)
             \o Utf8EncodeRange(cs, ((lo + hi) \div 2) + 1, hi)

\* secret.encode('utf-8') where it does not raise
utf8_encode(cs) == Utf8EncodeRange(cs, 1, Len(cs))

IsCont(b) == b >= 128 /\ b <= 191

\* The number of bytes of the well-formed sequence that starts at b[i], or 0
\* when none starts there (overlong forms, surrogates, values above U+10FFFF,
\* stray continuation bytes and truncated sequences are all rejected).
Utf8SeqLen(b, i) ==
    LET n  == Len(b)
        b0 == b[i]
        C(k) == i + k <= n /\ IsCont(b[i + k])
        In(k, lo, hi) == i + k <= n /\ b[i + k] >= lo /\ b[i + k] <= hi
    IN  IF b0 < 0 \/ b0 > 255 THEN 0
        ELSE IF b0 <= 127 THEN 1
        ELSE IF b0 >= 194 /\ b0 <= 223 THEN (IF C(1) THEN 2 ELSE 0)
        ELSE IF b0 = 224 THEN (IF In(1, 160, 191) /\ C(2) THEN 3 ELSE 0)
        ELSE IF b0 = 237 THEN (IF In(1, 128, 159) /\ C(2) THEN 3 ELSE 0)
        ELSE IF b0 >= 225 /\ b0 <= 239 THEN (IF C(1) /\ C(2) THEN 3 ELSE 0)
        ELSE IF b0 = 240 THEN (IF In(1, 144, 191) /\ C(2) /\ C(3) THEN 4 ELSE 0)
        ELSE IF b0 = 244 THEN (IF In(1, 128, 143) /\ C(2) /\ C(3) THEN 4 ELSE 0)
        ELSE IF b0 >= 241 /\ b0 <= 243 THEN (IF C(1) /\ C(2) /\ C(3) THEN 4 ELSE 0)
        ELSE 0

Utf8CodePoint(b, i, n) ==
    IF n = 1 THEN b[i]
    ELSE IF n = 2 THEN (b[i] - 192) * 64 + (b[i + 1] - 128)
    ELSE IF n = 3
    THEN (b[i] - 224) * 4096 + (b[i + 1] - 128) * 64 + (b[i + 2] - 128)
    ELSE (b[i] - 240) * 262144 + (b[i + 1] - 128) * 4096
         + (b[i + 2] - 128) * 64 + (b[i + 3] - 128)

\* One step of the decoder on st: the sequence at st.pos is decoded and
\* passed over, or st.bad is set where none is well-formed; the identity at
\* the end of the bytes and after an ill-formed sequence.
Utf8Step(b, st) ==
    IF st.bad \/ st.pos > Len(b) THEN st
    ELSE IF Utf8SeqLen(b, st.pos) = 0
    THEN [pos |-> st.pos, out |-> st.out, bad |-> TRUE]
    ELSE [pos |-> st.pos + Utf8SeqLen(b, st.pos),
          out |-> Append(st.out, Utf8CodePoint(b, st.pos, Utf8SeqLen(b, st.pos))),
          bad |-> FALSE]

\* n steps of the decoder
RECURSIVE Utf8Iterate(_, _, _)
Utf8Iterate(b, st, n) ==
    IF n = 0 THEN st
    ELSE IF n = 1 THEN Utf8Step(b, st)
    ELSE LET half == Utf8Iterate(b, st, n \div 2)
         IN  IF half.bad THEN half
             ELSE Utf8Iterate(b, half, n - (n \div 2))

\* the decoder run to the end of the bytes: Len(b) steps are enough
Utf8Decoded(b) == Utf8Iterate(b, [pos |-> 1, out |-> <<>>, bad |-> FALSE], Len(b))

\* bytes(secret_bytes).decode('utf-8') raises UnicodeDecodeError
Utf8DecodeRaises(b) == Utf8Decoded(b).bad

utf8_decode(b) == Utf8Decoded(b).out

(***************************************************************************)
(* int(text, 16) on ASCII text: optional surrounding whitespace, an        *)
(* optional sign, an optional 0x / 0X prefix (with one underscore allowed  *)
(* after it), then hexadecimal digits with single underscores between      *)
(* them.                                                                   *)
(***************************************************************************)
PyWhitespace == (9..13) \cup (28..32)

IsHexDigit(c) ==
    (c >= 48 /\ c <= 57) \/ (c >= 65 /\ c <= 70) \/ (c >= 97 /\ c <= 102)

HexDigitValue(c) ==
    IF c <= 57 THEN c - 48 ELSE IF c <= 70 THEN c - 55 ELSE c - 87

\* the text without its leading and trailing whitespace
PyStrip(cs) ==
    LET keep == {i \in 1..Len(cs) : cs[i] \notin PyWhitespace}
    IN  IF keep = {} THEN <<>>
        ELSE LET a == CHOOSE i \in keep : \A j \in keep : i <= j
                 z == CHOOSE i \in keep : \A j \in keep : j <= i
             IN  List([i \in 1..(z - a + 1) |-> cs[a + i - 1]])

RECURSIVE HexValue(_, _, _)
HexValue(body, i, acc) ==
    IF i > Len(body) THEN acc
    ELSE IF body[i] = 95 THEN HexValue(body, i + 1, acc)
    ELSE HexValue(body, i + 1, acc * 16 + HexDigitValue(body[i]))

\* the literal after its sign
Unsigned(core) ==
    IF core # <<>> /\ core[1] \in {43, 45} THEN Tail(core) ELSE core

\* the digits after a "0x" or "0X" prefix; one underscore may follow the prefix
AfterPrefix(after) ==
    IF after # <<>> /\ after[1] = 95 THEN Tail(after) ELSE after

Unprefixed(rest) ==
    IF Len(rest) >= 2 /\ rest[1] = 48 /\ rest[2] \in {88, 120}
    THEN AfterPrefix(Tail(Tail(rest)))
    ELSE rest

\* digits, with single underscores between digits only
WellFormedHex(body) ==
    /\ body # <<>>
    /\ IsHexDigit(body[1])
    /\ IsHexDigit(body[Len(body)])
    /\ \A i \in 1..Len(body) : IsHexDigit(body[i]) \/ body[i] = 95
    /\ \A i \in 1..(Len(body) - 1) : ~(body[i] = 95 /\ body[i + 1] = 95)

HexNumber(core, body) ==
    IF ~WellFormedHex(body) THEN [ok |-> FALSE, value |-> 0]
    ELSE [ok |-> TRUE,
          value |-> (IF core[1] = 45 THEN -1 ELSE 1) * HexValue(body, 1, 0)]

HexLiteral(core) == HexNumber(core, Unprefixed(Unsigned(core)))

\* int(cs, 16): [ok |-> TRUE, value |-> n], or [ok |-> FALSE] where it raises
\* ValueError
PyIntBase16(cs) == HexLiteral(PyStrip(cs))

(***************************************************************************)
(* Share framing: shamir.py lines 172-260.                                 *)
(***************************************************************************)
MinShareChars == 250

\* original_secret_length.to_bytes(2, 'big'), for a value below 65536
ToBytes2(n) == <<n \div 256, n % 256>>

\* int.from_bytes(two bytes, 'big')
FromBytes2(b, i) == b[i] * 256 + b[i + 1]

\* the additional_padding bytearray: count draws, the first one being call
\* number first_call
DrawBytes(tape, first_call, count) ==
    List([i \in 1..count |-> TapeValue(tape, first_call + i - 1)])

\* fault: the text filled up to 300 characters
FormatEncodedTo300(encoded, tape, first_call, fail_at) ==
    IF Len(encoded) < 300
    THEN LET padding_needed == 300 - Len(encoded)
             count          == (padding_needed \div 3) + 10
         IN  IF fail_at >= first_call /\ fail_at <= first_call + count - 1
             THEN [ok |-> FALSE, exc |-> "SecurityError",
                   msg |-> "Cryptographically secure random number generator not available",
                   calls |-> fail_at - first_call + 1]
             ELSE [ok |-> TRUE,
                   value |-> Slice(encoded \o encode_base62(
                                       DrawBytes(tape, first_call, count)),
                                   0, 300),
                   calls |-> count]
    ELSE [ok |-> TRUE, value |-> encoded, calls |-> 0]

\* _format_share_with_original_length from line 196 on, encoded being the
\* Base62 text of the header and the share data
FormatEncoded(encoded, tape, first_call, fail_at) ==
    IF Len(encoded) < MinShareChars
    THEN LET padding_needed == MinShareChars - Len(encoded)
             count          == (padding_needed \div 3) + 10
         IN  IF fail_at >= first_call /\ fail_at <= first_call + count - 1
             THEN [ok |-> FALSE, exc |-> "SecurityError",
                   msg |-> "Cryptographically secure random number generator not available",
                   calls |-> fail_at - first_call + 1]
             ELSE [ok |-> TRUE,
                   value |-> Slice(encoded \o encode_base62(
                                       DrawBytes(tape, first_call, count)),
                                   0, MinShareChars),
                   calls |-> count]
    ELSE [ok |-> TRUE, value |-> encoded, calls |-> 0]

\* _format_share_with_original_length.  calls is the number of
\* secure_random_int calls made; the call number fail_at raises SecurityError.
format_share_with_original_length(share_id, share_data, original_secret_length, tape, first_call, fail_at) ==
    FormatEncoded(
        encode_base62(<<share_id>> \o ToBytes2(original_secret_length)
                                  \o ToBytes2(Len(share_data)) \o share_data),
        tape, first_call, fail_at)

ParseOk(share_id, values) == [ok |-> TRUE, id |-> share_id, values |-> values]
ParseFail(reason) ==
    [ok |-> FALSE, exc |-> "ValueError", msg |-> "Failed to parse share", cause |-> reason]

\* _parse_base62_share from line 221 on
ParseDecoded(decoded_bytes) ==
    IF Len(decoded_bytes) < 5
    THEN IF Len(decoded_bytes) >= 2
            /\ decoded_bytes[1] >= 1 /\ decoded_bytes[1] <= 255
         THEN ParseOk(decoded_bytes[1],
                      Slice(decoded_bytes, 2, 2 + decoded_bytes[2]))
         ELSE ParseFail("Share too short")
    ELSE IF decoded_bytes[1] < 1 \/ decoded_bytes[1] > 255
    THEN ParseFail("Invalid share ID")
    ELSE IF Len(decoded_bytes) - 5 # FromBytes2(decoded_bytes, 4)
    THEN ParseFail("Share data length mismatch")
    ELSE ParseOk(decoded_bytes[1],
                 Slice(decoded_bytes, 5, 5 + FromBytes2(decoded_bytes, 2)))

\* _parse_base62_share on a Python value.  Every exception raised inside is
\* re-raised as ValueError("Failed to parse share: ...").  A value that is not a
\* str is falsy (None, taken as empty), not iterable (int) or iterates to ints
\* that are not characters (bytes): each ends in that ValueError.
parse_base62_share(share_str) ==
    IF ~IsInstanceStr(share_str)
    THEN ParseFail(IF share_str.t = "NoneType" THEN "Share too short" ELSE "TypeError")
    ELSE IF DecodeRaises(share_str.v) THEN ParseFail("Invalid Base62 character")
    ELSE ParseDecoded(decode_base62(share_str.v))

DASH == 45

\* the values loop of the hex fallback: one int(pair, 16) per two characters
HexPairs(values_hex) ==
    List([k \in 1..(Len(values_hex) \div 2) |->
             PyIntBase16(<<values_hex[2 * k - 1], values_hex[2 * k]>>)])

\* the position of the first dash, 0 without one
FirstDash(cs) ==
    LET dashes == {i \in 1..Len(cs) : cs[i] = DASH}
    IN  IF dashes = {} THEN 0
        ELSE CHOOSE i \in dashes : \A j \in dashes : i <= j

HexValues(share_id, pairs) ==
    IF \E k \in 1..Len(pairs) : ~pairs[k].ok
    THEN ParseFail("invalid literal for int()")
    ELSE ParseOk(share_id, List([k \in 1..Len(pairs) |-> pairs[k].value]))

HexFields(share_id, values_hex) ==
    IF ~share_id.ok THEN ParseFail("invalid literal for int()")
    ELSE IF share_id.value < 1 \/ share_id.value > 255
    THEN ParseFail("Invalid share ID")
    ELSE IF Len(values_hex) % 2 # 0
    THEN ParseFail("Invalid share values length")
    ELSE HexValues(share_id.value, HexPairs(values_hex))

\* share_str.split('-', 1) at the dash in position d
HexSplit(cs, d) ==
    IF d = 0 THEN ParseFail("Invalid share format")
    ELSE HexFields(PyIntBase16(Slice(cs, 0, d - 1)), Slice(cs, d, Len(cs)))

\* The hex fallback of reconstruct_secret (lines 398-414) up to the parsed
\* values: "HH-HHHH...", split on the first dash.
parse_hex_share(share_str) ==
    IF ~IsInstanceStr(share_str) THEN ParseFail("TypeError")
    ELSE HexSplit(share_str.v, FirstDash(share_str.v))

(***************************************************************************)
(* generate_shares: shamir.py lines 262-358.                               *)
(***************************************************************************)
MinBytesFor250Chars == 200

\* fault: the call at line 284 made without max_length, which leaves the
\* default of validate_secret_length
SplitMaxLengthDefault == 50000

\* max_length of the call at line 284
SplitMaxLength == 10000

\* fault: the secret padded to half the bytes
PaddingNeededHalf(n) ==
    IF n < MinBytesFor250Chars \div 2 THEN (MinBytesFor250Chars \div 2) - n ELSE 0

\* the number of padding bytes appended to a secret of n bytes (lines 298-299)
PaddingNeeded(n) ==
    IF n < MinBytesFor250Chars THEN MinBytesFor250Chars - n ELSE 0

\* fault: secret_bytes = bytes(padding) + secret_bytes
PaddedSecretFillerFirst(secret_bytes, tape) ==
    DrawBytes(tape, 1, PaddingNeeded(Len(secret_bytes))) \o secret_bytes

\* secret_bytes after line 308: the secret's bytes, then the padding drawn by
\* the calls 1..padding_needed
PaddedSecret(secret_bytes, tape) ==
    secret_bytes \o DrawBytes(tape, 1, PaddingNeeded(Len(secret_bytes)))

\* fault: the secret byte appended after the random coefficients, so that it
\* is the highest term and not the constant one
CoefficientsSecretLast(padded, tape, first_call, threshold, byte_index) ==
    DrawBytes(tape, first_call + (byte_index - 1) * (threshold - 1),
              threshold - 1)
        \o <<padded[byte_index]>>

\* the coefficients list of byte position byte_index (1-based here): the byte,
\* then threshold - 1 draws; first_call is the number of the first call made
\* in the byte loop
Coefficients(padded, tape, first_call, threshold, byte_index) ==
    <<padded[byte_index]>>
        \o DrawBytes(tape, first_call + (byte_index - 1) * (threshold - 1),
                     threshold - 1)

\* the list "shares" after the byte loop: shares[share_index - 1] is
\* [share_index, value at byte 0, value at byte 1, ...]
\* fault: the share ids counted from 0
RawSharesFromZero(padded, tape, first_call, total_shares, threshold) ==
    List([k \in 1..total_shares |->
        <<k - 1>> \o
        [byte_index \in 1..Len(padded) |->
            evaluate_polynomial(
                Coefficients(padded, tape, first_call, threshold, byte_index),
                k - 1)]])

RawShares(padded, tape, first_call, total_shares, threshold) ==
    List([share_index \in 1..total_shares |->
        <<share_index>> \o
        [byte_index \in 1..Len(padded) |->
            evaluate_polynomial(
                Coefficients(padded, tape, first_call, threshold, byte_index),
                share_index)]])

\* the encoding loop (lines 343-352) from share number j on; acc holds the
\* strings so far and next_call the number of the next random call.
\* EncodeNext is the loop after share j has been formatted as f.
RECURSIVE EncodeShares(_, _, _, _, _, _, _)
RECURSIVE EncodeNext(_, _, _, _, _, _, _, _)
EncodeShares(shares, original_length, tape, fail_at, j, next_call, acc) ==
    IF j > Len(shares) THEN [ok |-> TRUE, value |-> acc, calls |-> next_call - 1]
    ELSE EncodeNext(shares, original_length, tape, fail_at, j, next_call, acc,
                    format_share_with_original_length(
                        shares[j][1], Tail(shares[j]), original_length,
                        tape, next_call, fail_at))

EncodeNext(shares, original_length, tape, fail_at, j, next_call, acc, f) ==
    IF ~f.ok
    THEN [ok |-> FALSE, exc |-> f.exc, msg |-> f.msg,
          calls |-> next_call - 1 + f.calls]
    ELSE EncodeShares(shares, original_length, tape, fail_at, j + 1,
                      next_call + f.calls, Append(acc, f.value))

\* The buffers of generate_shares that still hold data when it returns or
\* raises.  clear_memory() empties the registered ones, and only in the finally
\* block: the padding bytearray is registered at line 311, after its loop, and
\* a coefficients list at line 330, after its draws.
Uncleared(buffers) == SelectSeq(buffers, LAMBDA b : b.content # <<>>)

\* the padding bytearray when the draw number fail_at of its loop raises
PaddingAtFailure(tape, fail_at) ==
    [kind |-> "padding", content |-> DrawBytes(tape, 1, fail_at - 1)]

\* the coefficients list when the draw number fail_at raises in the byte loop,
\* which makes its draws from first_call on
CoefficientsAtFailure(padded, tape, first_call, threshold, fail_at) ==
    LET done       == fail_at - first_call
        byte_index == (done \div (threshold - 1)) + 1
        drawn      == done % (threshold - 1)
    IN  [kind |-> "coefficients",
         content |-> <<padded[byte_index]>>
                        \o DrawBytes(tape, fail_at - drawn, drawn)]

\* the return of generate_shares after the encoding loop
GenerateEncoded(e) ==
    IF e.ok
    THEN [ok |-> TRUE, value |-> e.value, calls |-> e.calls, cleared |-> TRUE,
          left |-> <<>>]
    ELSE [ok |-> FALSE, exc |-> e.exc, msg |-> e.msg, calls |-> e.calls,
          cleared |-> TRUE, left |-> <<>>]

\* generate_shares from line 298 on, secret_bytes being the UTF-8 bytes of the
\* secret.  A draw that fails in the padding loop is outside the try block,
\* one that fails later is inside.
GenerateFromBytes(secret_bytes, total_shares, threshold, tape, fail_at) ==
    LET original_length == Len(secret_bytes)
        padding_needed  == PaddingNeeded(original_length)
        coeff_calls     == (original_length + padding_needed) * (threshold - 1)
    IN  IF fail_at >= 1 /\ fail_at <= padding_needed
        THEN [ok |-> FALSE, exc |-> "SecurityError", msg |-> CsprngUnavailable,
              calls |-> fail_at, cleared |-> FALSE,
              left |-> Uncleared(<<PaddingAtFailure(tape, fail_at)>>)]
        ELSE IF fail_at > padding_needed
                /\ fail_at <= padding_needed + coeff_calls
        THEN [ok |-> FALSE, exc |-> "SecurityError", msg |-> CsprngUnavailable,
              calls |-> fail_at, cleared |-> TRUE,
              left |-> Uncleared(<<CoefficientsAtFailure(
                                      PaddedSecret(secret_bytes, tape), tape,
                                      padding_needed + 1, threshold, fail_at)>>)]
        ELSE GenerateEncoded(
                 EncodeShares(
                     RawShares(PaddedSecret(secret_bytes, tape), tape,
                               padding_needed + 1, total_shares, threshold),
                     original_length, tape, fail_at, 1,
                     padding_needed + coeff_calls + 1, <<>>))

\* generate_shares with the random tape and failure point of the call.
\* calls: secure_random_int calls made; cleared: clear_memory() ran (the
\* finally block was reached); left: the padding and coefficient buffers that
\* still hold data.
generate_shares(secret, total_shares, threshold, tape, fail_at) ==
    LET params == validate_share_parameters(total_shares, threshold)
        length == validate_secret_length(secret, DefaultMinLength, SplitMaxLength)
    IN  IF ~params[1]
        THEN [ok |-> FALSE, exc |-> "ValueError", msg |-> params[2],
              calls |-> 0, cleared |-> FALSE, left |-> <<>>]
        ELSE IF ~length[1]
        THEN [ok |-> FALSE, exc |-> "ValueError", msg |-> length[2],
              calls |-> 0, cleared |-> FALSE, left |-> <<>>]
        ELSE IF Utf8EncodeRaises(secret.v)
        THEN [ok |-> FALSE, exc |-> "UnicodeEncodeError",
              msg |-> "surrogates not allowed", calls |-> 0, cleared |-> FALSE,
              left |-> <<>>]
        ELSE GenerateFromBytes(utf8_encode(secret.v), IntOf(total_shares),
                               IntOf(threshold), tape, fail_at)

(***************************************************************************)
(* reconstruct_secret: shamir.py lines 360-454.                            *)
(***************************************************************************)
\* secret_length before the first share is parsed
None == -1

\* what the two parsers make of one share string, each on its own
ParseAttempt(share_str) ==
    [b62 |-> parse_base62_share(share_str), hex |-> parse_hex_share(share_str)]

\* fault: a Base62 share appended as parsed, its length neither compared with
\* secret_length nor cut to it
RECURSIVE ParseLoopUnchecked(_, _, _, _)
ParseLoopUnchecked(attempts, i, secret_length, parsed_shares) ==
    IF i > Len(attempts)
    THEN [ok |-> TRUE, parsed_shares |-> parsed_shares,
          secret_length |-> secret_length]
    ELSE LET b == attempts[i].b62
             h == attempts[i].hex
         IN  IF b.ok
             THEN ParseLoopUnchecked(attempts, i + 1,
                      IF secret_length = None THEN Len(b.values) ELSE secret_length,
                      Append(parsed_shares, <<b.id, b.values>>))
             ELSE IF ~h.ok THEN ParseFail(h.cause)
             ELSE IF secret_length # None /\ Len(h.values) # secret_length
             THEN ParseFail("Inconsistent share lengths")
             ELSE ParseLoopUnchecked(attempts, i + 1, Len(h.values),
                      Append(parsed_shares, <<h.id, h.values>>))

\* The parsing loop (lines 379-424) from share number i on.  secret_length is
\* None until the first share is parsed.  A Base62 share longer than
\* secret_length is truncated; a shorter one raises ValueError inside the try,
\* which sends the string to the hex fallback like any Base62 parse failure.
RECURSIVE ParseLoop(_, _, _, _)
ParseLoop(attempts, i, secret_length, parsed_shares) ==
    IF i > Len(attempts)
    THEN [ok |-> TRUE, parsed_shares |-> parsed_shares,
          secret_length |-> secret_length]
    ELSE LET b == attempts[i].b62
             h == attempts[i].hex
         IN  IF b.ok /\ (secret_length = None \/ Len(b.values) >= secret_length)
             THEN LET n == IF secret_length = None THEN Len(b.values)
                           ELSE secret_length
                  IN  ParseLoop(attempts, i + 1, n,
                          Append(parsed_shares, <<b.id, Slice(b.values, 0, n)>>))
             ELSE IF ~h.ok THEN ParseFail(h.cause)
             ELSE IF secret_length # None /\ Len(h.values) # secret_length
             THEN ParseFail("Inconsistent share lengths")
             ELSE ParseLoop(attempts, i + 1, Len(h.values),
                      Append(parsed_shares, <<h.id, h.values>>))

\* lines 440-448: the secret from its bytes
DecodeSecret(secret_bytes) ==
    IF Utf8DecodeRaises(secret_bytes)
    THEN [ok |-> FALSE, exc |-> "ValueError",
          msg |-> "Reconstructed data is not valid UTF-8", cleared |-> TRUE]
    ELSE [ok |-> TRUE, value |-> PyStr(utf8_decode(secret_bytes)),
          cleared |-> TRUE]

\* the byte loop (lines 429-438), bytes[k] being the outcome at byte k: the
\* first one that raises ends the loop, and only UnicodeDecodeError is caught
InterpolatedBytes(bytes) ==
    LET failed == {k \in 1..Len(bytes) : ~bytes[k].ok}
    IN  IF failed # {}
        THEN [ok |-> FALSE,
              exc |-> bytes[CHOOSE k \in failed : \A j \in failed : k <= j].exc,
              msg |-> bytes[CHOOSE k \in failed : \A j \in failed : k <= j].msg,
              cleared |-> TRUE]
        ELSE DecodeSecret(List([k \in 1..Len(bytes) |-> bytes[k].value]))

\* the points of byte position byte_index
PointsAt(parsed_shares, byte_index) ==
    List([k \in 1..Len(parsed_shares) |->
             <<parsed_shares[k][1], parsed_shares[k][2][byte_index]>>])

\* values[byte_index] at line 437 raises IndexError on a value vector that is
\* shorter than secret_length
PointsRaise(parsed_shares, byte_index) ==
    \E k \in 1..Len(parsed_shares) : Len(parsed_shares[k][2]) < byte_index

\* one iteration of the byte loop: the points, then the interpolation at 0
InterpolateByte(parsed_shares, byte_index) ==
    IF PointsRaise(parsed_shares, byte_index)
    THEN [ok |-> FALSE, exc |-> "IndexError", msg |-> "list index out of range"]
    ELSE lagrange_interpolation(PointsAt(parsed_shares, byte_index), 0)

\* lines 426-454 on the parsed shares
Interpolate(parsed_shares, secret_length) ==
    InterpolatedBytes(
        List([byte_index \in 1..secret_length |->
                 InterpolateByte(parsed_shares, byte_index)]))

\* reconstruct_secret after the parsing loop
AfterParse(p) ==
    IF ~p.ok
    THEN [ok |-> FALSE, exc |-> p.exc, msg |-> p.msg, cause |-> p.cause,
          cleared |-> FALSE]
    ELSE IF p.parsed_shares = <<>>
    THEN [ok |-> FALSE, exc |-> "ValueError",
          msg |-> "No valid shares found", cleared |-> FALSE]
    ELSE Interpolate(p.parsed_shares, p.secret_length)

\* reconstruct_secret on the parse attempts of its shares, in list order
ReconstructFromAttempts(attempts) ==
    IF attempts = <<>>
    THEN [ok |-> FALSE, exc |-> "ValueError", msg |-> "No shares provided",
          cleared |-> FALSE]
    ELSE AfterParse(ParseLoop(attempts, 1, None, <<>>))

reconstruct_secret(shares) ==
    ReconstructFromAttempts(List([i \in 1..Len(shares) |-> ParseAttempt(shares[i])]))

(***************************************************************************)
(* validate_shares: shamir.py lines 481-571.  The messages keep the        *)
(* placeholders of their f-strings.  No statement inside the try block     *)
(* raises anything but the ValueError of _parse_base62_share, which is     *)
(* caught, so the "Validation error" return is not reached.                *)
(***************************************************************************)
\* one share of the loop: accepted with its id and length, or rejected
Accept(share_id, length) == [msg |-> "", id |-> share_id, length |-> length]
Reject(msg) == [msg |-> msg, id |-> 0, length |-> 0]

\* fault: the share id not looked up among those seen
ValidateBase62Unseen(b, secret_length, share_ids) ==
    IF secret_length # None /\ Len(b.values) # secret_length
    THEN Reject("Share {i+1} has inconsistent length")
    ELSE Accept(b.id, Len(b.values))

\* lines 506-518: a share that _parse_base62_share accepts
ValidateBase62(b, secret_length, share_ids) ==
    IF b.id \in share_ids THEN Reject("Duplicate share ID: {share_id}")
    ELSE IF secret_length # None /\ Len(b.values) # secret_length
    THEN Reject("Share {i+1} has inconsistent length")
    ELSE Accept(b.id, Len(b.values))

\* fault: the number of hex values not compared with secret_length
ValidateHexValuesAnyLength(share_id, pairs, secret_length) ==
    IF \E k \in 1..Len(pairs) : ~pairs[k].ok
    THEN Reject("Share {i+1} has invalid hex values")
    ELSE Accept(share_id, Len(pairs))

\* lines 550-562: the hex values
ValidateHexValues(share_id, pairs, secret_length) ==
    IF \E k \in 1..Len(pairs) : ~pairs[k].ok
    THEN Reject("Share {i+1} has invalid hex values")
    ELSE IF secret_length # None /\ Len(pairs) # secret_length
    THEN Reject("Share {i+1} has inconsistent length")
    ELSE Accept(share_id, Len(pairs))

\* lines 530-548: the share id, then the length of the values text
ValidateHexFields(share_id, values_hex, secret_length, share_ids) ==
    IF ~share_id.ok THEN Reject("Share {i+1} has invalid ID format")
    ELSE IF share_id.value < 1 \/ share_id.value > 255
    THEN Reject("Share {i+1} has invalid ID: {share_id}")
    ELSE IF share_id.value \in share_ids
    THEN Reject("Duplicate share ID: {share_id}")
    ELSE IF Len(values_hex) % 2 # 0
    THEN Reject("Share {i+1} has invalid values length")
    ELSE IF Len(values_hex) = 0
    THEN Reject("Share {i+1} has no values")
    ELSE ValidateHexValues(share_id.value, HexPairs(values_hex), secret_length)

\* lines 520-528: the hex fallback on the text cs with its first dash at d
ValidateHex(cs, d, secret_length, share_ids) ==
    IF d = 0 THEN Reject("Share {i+1} has invalid format")
    ELSE ValidateHexFields(PyIntBase16(Slice(cs, 0, d - 1)),
                           Slice(cs, d, Len(cs)), secret_length, share_ids)

\* one iteration of the loop on a string
ValidateOne(share_str, b, secret_length, share_ids) ==
    IF b.ok THEN ValidateBase62(b, secret_length, share_ids)
    ELSE ValidateHex(share_str.v, FirstDash(share_str.v), secret_length, share_ids)

\* the loop of lines 503-566 from share number i on; parsed[i] is what
\* _parse_base62_share makes of shares[i]
RECURSIVE ValidateLoop(_, _, _, _, _)
RECURSIVE ValidateNext(_, _, _, _, _)
ValidateLoop(shares, parsed, i, secret_length, share_ids) ==
    IF i > Len(shares) THEN <<TRUE, "">>
    ELSE IF ~IsInstanceStr(shares[i])
    THEN <<FALSE, "Share {i+1} is not a string">>
    ELSE ValidateNext(shares, parsed, i, share_ids,
                      ValidateOne(shares[i], parsed[i], secret_length, share_ids))

ValidateNext(shares, parsed, i, share_ids, one) ==
    IF one.msg # "" THEN <<FALSE, one.msg>>
    ELSE ValidateLoop(shares, parsed, i + 1, one.length, share_ids \cup {one.id})

\* validate_shares, parsed being the Base62 parses of the shares
ValidateParsed(shares, parsed) ==
    IF shares = <<>> THEN <<FALSE, "No shares provided">>
    ELSE IF Len(shares) < 2 THEN <<FALSE, "At least 2 shares required">>
    ELSE ValidateLoop(shares, parsed, 1, None, {})

validate_shares(shares) ==
    ValidateParsed(shares,
                   List([i \in 1..Len(shares) |-> parse_base62_share(shares[i])]))

(***************************************************************************)
(* InputValidator: src/utils/validators.py lines 76-136.                   *)
(***************************************************************************)
LF == 10

\* re.match(r'^[0-9A-Za-z]+$', text): $ also matches before a final newline
MatchesAlphanumeric(text) ==
    LET body == IF text # <<>> /\ text[Len(text)] = LF
                THEN SubSeq(text, 1, Len(text) - 1) ELSE text
    IN  body # <<>> /\ \A i \in 1..Len(body) : body[i] \in Base62Chars

\* the shortest share validate_share_format lets through
MinFormatLength == 10

\* validate_share_format on a str of code points cs whose first dash is at d
\* (0: none) and which has dashes dashes
ShareFormat(cs, d, dashes) ==
    IF cs = <<>> THEN <<FALSE, "Share cannot be empty">>
    ELSE IF dashes > 1 THEN <<FALSE, "Share format invalid (too many dashes)">>
    ELSE IF dashes = 1 /\ ~(MatchesAlphanumeric(Slice(cs, 0, d - 1))
                             /\ MatchesAlphanumeric(Slice(cs, d, Len(cs))))
    THEN <<FALSE, "Share must contain only alphanumeric characters">>
    ELSE IF dashes = 0 /\ ~MatchesAlphanumeric(cs)
    THEN <<FALSE, "Share must contain only alphanumeric characters">>
    ELSE IF Len(cs) < MinFormatLength THEN <<FALSE, "Share too short">>
    ELSE <<TRUE, "">>

validate_share_format(share) ==
    IF ~IsInstanceStr(share) THEN <<FALSE, "Share must be a string">>
    ELSE ShareFormat(share.v, FirstDash(share.v),
                     Cardinality({i \in 1..Len(share.v) : share.v[i] = DASH}))

\* the loop of validate_shares_list from share number i on; share_ids holds
\* the texts before the dash of the dash-form shares seen
RECURSIVE ValidateListLoop(_, _, _)
ValidateListLoop(shares, i, share_ids) ==
    IF i > Len(shares) THEN <<TRUE, "">>
    ELSE LET format == validate_share_format(shares[i])
             d      == FirstDash(shares[i].v)
             id     == Slice(shares[i].v, 0, d - 1)
         IN  IF ~format[1] THEN <<FALSE, "Share {i+1}: " \o format[2]>>
             ELSE IF d = 0 THEN ValidateListLoop(shares, i + 1, share_ids)
             ELSE IF id \in share_ids
             THEN <<FALSE, "Duplicate share ID: {share_id}">>
             ELSE ValidateListLoop(shares, i + 1, share_ids \cup {id})

PyList(items) == [t |-> "list", v |-> items]

validate_shares_list(shares) ==
    IF shares.t # "list" THEN <<FALSE, "Shares must be a list">>
    ELSE IF Len(shares.v) < 2 THEN <<FALSE, "At least 2 shares required">>
    ELSE ValidateListLoop(shares.v, 1, {})

(***************************************************************************)
(* Inputs of the operations.                                               *)
(***************************************************************************)
\* the largest total_shares with which generate_shares is run to its end
MaxTotal == 3

Repeat(c, n) == List([i \in 1..n |-> c])

\* secrets that generate_shares accepts: "A", U+00F1 U+1F512, "Hi", and those
\* of 200 and 201 bytes, which need no padding
GoodSecrets ==
    {PyStr(<<65>>), PyStr(<<241, 128274>>), PyStr(<<72, 105>>),
     PyStr(Repeat(120, MinBytesFor250Chars)),
     PyStr(Repeat(120, MinBytesFor250Chars + 1))}

\* values that are rejected: the empty string, a NUL inside, a string of
\* 10 001 characters, a lone surrogate, values that are not a str
BadSecrets ==
    {PyStr(<<>>), PyStr(<<65, 0, 66>>), PyStr(Repeat(120, SplitMaxLength + 1)),
     PyStr(<<55296>>), PyBytes(<<65>>), PyNone, PyInt(7)}

NonIntegers == {PyFloat(2), PyStr(<<51>>), PyNone}

TotalInputs ==
    {PyInt(n) : n \in (0..MaxTotal) \cup {256, 300}} \cup {PyBool(1)} \cup NonIntegers

ThresholdInputs ==
    {PyInt(n) : n \in (0..(MaxTotal + 1)) \cup {100}} \cup {PyBool(1)} \cup NonIntegers

\* the inputs of validate_share_parameters called on its own
ParameterInputs ==
    {PyInt(n) : n \in (-1..(MaxTotal + 1)) \cup {128, 254, 255, 256, 300}}
        \cup {PyBool(0), PyBool(1)} \cup NonIntegers

\* the inputs of validate_secret_length called on its own
LengthInputs ==
    GoodSecrets \cup BadSecrets
        \cup {PyStr(Repeat(120, n)) :
                n \in {SplitMaxLength, DefaultMaxLength, DefaultMaxLength + 1}}

\* random tapes, each value in RandomIntRange(1, 255)
Tapes == {<<1>>, <<83, 255, 7>>}

\* the call that fails: none, the first and the second padding draw, a
\* coefficient draw
FailPoints == {0, 1, 2, MinBytesFor250Chars}

\* the non-empty lists without repetition of indices 1..n

Injective(p) == \A i, j \in 1..Len(p) : i # j => p[i] # p[j]
PicksOfLen(n, m) == {p \in [1..m -> 1..n] : Injective(p)}
Picks(n) == UNION {PicksOfLen(n, m) : m \in 1..n}

\* the decoded bytes of a current-format share
Frame(share_id, original_length, values) ==
    <<share_id>> \o ToBytes2(original_length) \o ToBytes2(Len(values)) \o values

\* share strings written by hand, not issued by generate_shares
CraftedShares ==
    {PyStr(encode_base62(Frame(1, 1, <<65>>))),       \* id 1, L = 1, "A"
     PyStr(encode_base62(Frame(1, 1, <<67>>))),       \* id 1 again
     PyStr(encode_base62(Frame(2, 1, <<66>>))),       \* id 2, L = 1
     PyStr(encode_base62(Frame(2, 2, <<66, 67>>))),   \* id 2, L = 2
     PyStr(encode_base62(Frame(3, 2, <<68, 69>>))),   \* id 3, L = 2
     PyStr(encode_base62(Frame(1, 0, <<>>))),         \* id 1, L = 0
     PyStr(encode_base62(Frame(1, 0, <<9>>))),        \* id 1, L = 0, P = 1
     PyStr(encode_base62(Frame(2, 0, <<>>))),         \* id 2, L = 0
     PyStr(encode_base62(Frame(4, 1, <<200, 1>>))),   \* id 4, L = 1, P = 2
     PyStr(encode_base62(<<3, 1, 70>>)),              \* legacy: id 3, L = 1
     PyStr(<<48, 49, 45, 52, 49>>),                   \* "01-41"
     PyStr(<<48, 50, 45, 52, 50, 52, 51>>),           \* "02-4243"
     PyStr(<<48, 49, 45>>),                           \* "01-"
     PyStr(<<122, 122, 45, 52, 49>>),                 \* "zz-41"
     PyStr(<<33, 33>>),                               \* "!!"
     PyStr(<<48, 50, 45, 45, 102>>),                  \* "02--f": the value -15
     PyStr(<<48, 49, 45, 52>>),                       \* "01-4"
     PyStr(<<74, 77, 66, 82, 56, 80, 121>>),          \* "JMBR8Py": id 1, L = 1 with its last character changed
     PyStr(<<74, 77, 66, 82, 56, 80>>),               \* "JMBR8P": the same cut short
     PyStr(<<>>),                                     \* ""
     PyNone}

\* the longest hand-written list
MaxCraftedList == 2

CraftedLists ==
    UNION {[1..m -> CraftedShares] : m \in 0..MaxCraftedList}

(***************************************************************************)
(* State.                                                                  *)
(***************************************************************************)
VARIABLES
    pc,                   \* the caller: "start", "issued" (it holds the shares
                          \* of a split), "done"
    call,                 \* the last call: its operation and arguments
    result,               \* what the last call returned or raised
    held,                 \* the share strings the caller holds
    issue,                \* the generate_shares call that issued them
    draws,                \* secure_random_int calls made so far
    sensitive_data_refs,  \* SecurityValidator._sensitive_data_refs
    buffers,              \* the padding and coefficient buffers of the last
                          \* generate_shares that hold data after its exit
    engines,              \* the ShamirSecretSharing instances that run side
                          \* by side, each with its fields and its call
    objects               \* the caller's objects that were passed to
                          \* register_sensitive_data; the registry names
                          \* them by their position here

vars == <<exp_table, log_table, pc, call, result, held, issue, draws,
          sensitive_data_refs, buffers, engines, objects>>

\* the tables are written by __init__ only
tables == <<exp_table, log_table>>

NoCall == [op |-> "none"]
NoResult == [ok |-> TRUE, value |-> <<>>, exc |-> "", msg |-> ""]

\* the outcome of a call as the caller sees it
Outcome(r) ==
    IF r.ok THEN [ok |-> TRUE, value |-> r.value, exc |-> "", msg |-> ""]
    ELSE [ok |-> FALSE, value |-> <<>>, exc |-> r.exc,
          msg |-> IF "cause" \in DOMAIN r THEN r.msg \o ": " \o r.cause ELSE r.msg]

\* the outcome of a validator that returns (is_valid, error_message)
Verdict(v) == [ok |-> TRUE, value |-> v, exc |-> "", msg |-> ""]

\* clear_memory() at the end of an operation that reached its finally block
AfterCall(r) == IF r.cleared THEN <<>> ELSE sensitive_data_refs

\* the instances that run side by side
Instances == {1, 2}

\* an instance after __init__ (shamir.py lines 25-30, security.py line 27):
\* its own tables, its own SecurityValidator with an empty registry.  heap
\* holds the buffers its calls allocate, a buffer's reference being
\* <<instance, position in heap>>; local holds the local variables of the
\* call in progress and pending what it is about to return or raise.
NoLocal == [data |-> <<>>, length |-> 0, byte_index |-> 0, at |-> 0,
            then |-> "", out |-> <<>>]

NewEngine(exp, log) ==
    [pc |-> "idle", call |-> NoCall, exp_table |-> exp, log_table |-> log,
     sensitive_data_refs |-> <<>>, heap |-> <<>>, local |-> NoLocal,
     pending |-> NoResult, result |-> NoResult]

Init ==
    /\ exp_table = BuildExpTable
    /\ log_table = BuildLogTable(exp_table)
    /\ pc = "start"
    /\ call = NoCall
    /\ result = NoResult
    /\ held = <<>>
    /\ issue = NoCall
    /\ draws = 0
    /\ sensitive_data_refs = <<>>
    /\ buffers = <<>>
    /\ engines = [i \in Instances |-> NewEngine(exp_table, log_table)]
    /\ objects = <<>>

(***************************************************************************)
(* Operations.                                                             *)
(***************************************************************************)
GenerateShares ==
    /\ pc = "start"
    /\ \E secret \in GoodSecrets \cup BadSecrets,
          total_shares \in TotalInputs, threshold \in ThresholdInputs,
          tape \in Tapes, fail_at \in FailPoints :
          \E r \in {generate_shares(secret, total_shares, threshold, tape, fail_at)} :
          LET c == [op |-> "generate_shares", secret |-> secret,
                    total_shares |-> total_shares, threshold |-> threshold,
                    tape |-> tape, fail_at |-> fail_at]
          IN  /\ call' = c
              /\ result' = Outcome(r)
              /\ held' = IF r.ok THEN r.value ELSE <<>>
              /\ issue' = IF r.ok THEN c ELSE NoCall
              /\ pc' = IF r.ok THEN "issued" ELSE "done"
              /\ draws' = draws + r.calls
              /\ sensitive_data_refs' = AfterCall(r)
              /\ buffers' = r.left
    /\ UNCHANGED <<tables, engines, objects>>

\* reconstruct_secret on shares picked from those the caller holds; each held
\* string is parsed once for all the picks
ReconstructIssued ==
    /\ pc = "issued"
    /\ \E attempts \in {List([j \in 1..Len(held) |-> ParseAttempt(PyStr(held[j]))])} :
       \E pick \in Picks(Len(held)) :
       \E r \in {ReconstructFromAttempts(List([i \in 1..Len(pick) |-> attempts[pick[i]]]))} :
          /\ call' = [op |-> "reconstruct_secret",
                      shares |-> List([i \in 1..Len(pick) |-> PyStr(held[pick[i]])]),
                      pick |-> pick]
          /\ result' = Outcome(r)
          /\ sensitive_data_refs' = AfterCall(r)
    /\ pc' = "done"
    /\ UNCHANGED <<tables, engines, objects, buffers, held, issue, draws>>

\* reconstruct_secret on a list written by hand
ReconstructCrafted ==
    /\ pc = "start"
    /\ \E shares \in CraftedLists :
       \E r \in {reconstruct_secret(shares)} :
          /\ call' = [op |-> "reconstruct_secret", shares |-> shares,
                      pick |-> <<>>]
          /\ result' = Outcome(r)
          /\ sensitive_data_refs' = AfterCall(r)
    /\ pc' = "done"
    /\ UNCHANGED <<tables, engines, objects, buffers, held, issue, draws>>

\* SecurityValidator.validate_share_parameters called on its own
ValidateShareParameters ==
    /\ pc = "start"
    /\ \E total_shares \in ParameterInputs, threshold \in ParameterInputs :
          /\ call' = [op |-> "validate_share_parameters",
                      total_shares |-> total_shares, threshold |-> threshold]
          /\ result' = Verdict(validate_share_parameters(total_shares, threshold))
    /\ pc' = "done"
    /\ UNCHANGED <<tables, engines, objects, buffers, held, issue, draws, sensitive_data_refs>>

\* SecurityValidator.validate_secret_length called on its own
ValidateSecretLength ==
    /\ pc = "start"
    /\ \E secret \in LengthInputs, max_length \in {SplitMaxLength, DefaultMaxLength} :
          /\ call' = [op |-> "validate_secret_length", secret |-> secret,
                      max_length |-> max_length]
          /\ result' = Verdict(validate_secret_length(secret, DefaultMinLength,
                                                      max_length))
    /\ pc' = "done"
    /\ UNCHANGED <<tables, engines, objects, buffers, held, issue, draws, sensitive_data_refs>>

\* validate_shares on shares picked from those the caller holds
ValidateSharesIssued ==
    /\ pc = "issued"
    /\ \E parsed \in {List([j \in 1..Len(held) |-> parse_base62_share(PyStr(held[j]))])} :
       \E pick \in Picks(Len(held)) :
       \E shares \in {List([i \in 1..Len(pick) |-> PyStr(held[pick[i]])])} :
          /\ call' = [op |-> "validate_shares", shares |-> shares, pick |-> pick]
          /\ result' = Verdict(ValidateParsed(
                                   shares, List([i \in 1..Len(pick) |-> parsed[pick[i]]])))
    /\ pc' = "done"
    /\ UNCHANGED <<tables, engines, objects, buffers, held, issue, draws, sensitive_data_refs>>

\* validate_shares on a list written by hand
ValidateSharesCrafted ==
    /\ pc = "start"
    /\ \E shares \in CraftedLists :
          /\ call' = [op |-> "validate_shares", shares |-> shares, pick |-> <<>>]
          /\ result' = Verdict(validate_shares(shares))
    /\ pc' = "done"
    /\ UNCHANGED <<tables, engines, objects, buffers, held, issue, draws, sensitive_data_refs>>

\* the random source at a call: unavailable, a first draw of the wrong length,
\* two equal draws, and a working one
CsprngSources ==
    {[raises |-> TRUE, first |-> <<>>, second |-> <<>>],
     [raises |-> FALSE, first |-> Repeat(1, TokenLength - 1),
                        second |-> Repeat(2, TokenLength)],
     [raises |-> FALSE, first |-> Repeat(1, TokenLength),
                        second |-> Repeat(1, TokenLength)],
     [raises |-> FALSE, first |-> Repeat(1, TokenLength),
                        second |-> Repeat(2, TokenLength)]}

\* SecurityValidator.secure_random_int called on its own
SecureRandomInt ==
    /\ pc = "start"
    /\ \E source \in CsprngSources, min_val \in {0, 1}, max_val \in {1, 255} :
       \E below \in {0, max_val - min_val} :
          /\ call' = [op |-> "secure_random_int", source |-> source,
                      min_val |-> min_val, max_val |-> max_val, below |-> below]
          /\ result' = Outcome(secure_random_int(min_val, max_val, source, below))
    /\ draws' = draws + 1
    /\ pc' = "done"
    /\ UNCHANGED <<tables, engines, objects, buffers, held, issue, sensitive_data_refs>>

\* SecurityValidator.secure_random_bytes called on its own
SecureRandomBytes ==
    /\ pc = "start"
    /\ \E source \in CsprngSources, length \in {0, 1, TokenLength} :
       \E token \in {Repeat(0, length), Repeat(255, length)} :
          /\ call' = [op |-> "secure_random_bytes", source |-> source,
                      length |-> length, token |-> token]
          /\ result' = Outcome(secure_random_bytes(length, source, token))
    /\ pc' = "done"
    /\ UNCHANGED <<tables, engines, objects, buffers, held, issue, draws, sensitive_data_refs>>

Next ==
    \/ GenerateShares
    \/ ReconstructIssued
    \/ ReconstructCrafted
    \/ ValidateShareParameters
    \/ ValidateSecretLength
    \/ SecureRandomInt
    \/ SecureRandomBytes
    \/ ValidateSharesIssued
    \/ ValidateSharesCrafted

Spec == Init /\ [][Next]_vars

(***************************************************************************)
(* The private methods of ShamirSecretSharing, each called on its own.     *)
(***************************************************************************)
\* the longest byte vector handed to the codec
MaxVector == 4

\* bytes at the ends of the range and at the size of the alphabet
ByteSamples == {0, 1, 62, 255}

ByteVectors == UNION {[1..n -> ByteSamples] : n \in 0..MaxVector}

\* _decode_base62(_encode_base62(data))
EncodeDecodeBase62 ==
    /\ pc = "start"
    /\ \E data \in ByteVectors :
       \E encoded \in {encode_base62(data)} :
          /\ call' = [op |-> "encode_base62", data |-> data]
          /\ result' = Verdict([encoded |-> encoded,
                                raises  |-> DecodeRaises(encoded),
                                decoded |-> decode_base62(encoded)])
    /\ pc' = "done"
    /\ UNCHANGED <<tables, engines, objects, buffers, held, issue, draws, sensitive_data_refs>>

\* the elements of GF(256)
FieldElements == 0..255

\* _gf_mult and _gf_div on a pair of field elements
GfArithmetic ==
    /\ pc = "start"
    /\ \E a \in FieldElements, b \in FieldElements :
       \E product \in {gf_mult(a, b)} :
          /\ call' = [op |-> "gf_mult", a |-> a, b |-> b]
          /\ result' = Verdict([product  |-> product,
                                swapped  |-> gf_mult(b, a),
                                by_one   |-> gf_mult(a, 1),
                                by_zero  |-> gf_mult(a, 0),
                                quotient |-> GfDivOutcome(product, b),
                                over_zero |-> GfDivOutcome(a, 0)])
    /\ pc' = "done"
    /\ UNCHANGED <<tables, engines, objects, buffers, held, issue, draws, sensitive_data_refs>>

\* decoded bytes of share strings: current frames whose header is followed by
\* exactly, more than and fewer than the declared padded length; legacy
\* frames [id][L][L values] with L from 1 to 4; one byte and none
FramedBytes ==
    {[format |-> "current", data |-> Frame(1, 1, <<65, 7>>)],
     [format |-> "current", data |-> Frame(255, 2, <<65, 7>>)],
     [format |-> "current", data |-> Frame(1, 1, <<65, 7>>) \o <<9>>],
     [format |-> "current", data |-> Frame(2, 2, <<65, 7>>) \o <<9, 9, 9>>],
     [format |-> "current", data |-> <<1>> \o ToBytes2(1) \o ToBytes2(3) \o <<65, 7>>],
     [format |-> "current", data |-> <<1>> \o ToBytes2(0) \o ToBytes2(1)],
     [format |-> "legacy", data |-> <<1, 1, 65>>],
     [format |-> "legacy", data |-> <<255, 2, 65, 66>>],
     [format |-> "legacy", data |-> <<1, 3, 65, 66, 67>>],
     [format |-> "legacy", data |-> <<2, 4, 65, 66, 67, 68>>],
     [format |-> "short", data |-> <<7>>],
     [format |-> "short", data |-> <<>>]}

\* _parse_base62_share on the Base62 text of the bytes
ParseBase62Share ==
    /\ pc = "start"
    /\ \E f \in FramedBytes :
       \E share_str \in {encode_base62(f.data)} :
       \E p \in {parse_base62_share(PyStr(share_str))} :
          /\ call' = [op |-> "parse_base62_share", format |-> f.format,
                      data |-> f.data, share_str |-> share_str]
          /\ result' = IF p.ok THEN Verdict(<<p.id, p.values>>) ELSE Outcome(p)
    /\ pc' = "done"
    /\ UNCHANGED <<tables, engines, objects, buffers, held, issue, draws, sensitive_data_refs>>

UnitNext ==
    \/ EncodeDecodeBase62
    \/ GfArithmetic
    \/ ParseBase62Share

UnitSpec == Init /\ [][UnitNext]_vars

\* payload lengths: short ones, those whose frame encodes to just under and
\* just over 250 characters, and the 200 bytes of a padded secret
PayloadLengths == {0, 1, 3, 170, 181, 182, MinBytesFor250Chars}

Payloads == {Repeat(7, n) : n \in PayloadLengths} \cup {<<255, 0, 65>>}

\* the original lengths declared for a payload of p bytes
DeclaredLengths(p) == {n \in {0, 1, p} : n <= p}

\* _parse_base62_share(_format_share_with_original_length(id, data, length))
FormatAndParse ==
    /\ pc = "start"
    /\ \E share_id \in {1, 255}, share_data \in Payloads, tape \in Tapes,
          fail_at \in {0, 1} :
       \E original_secret_length \in DeclaredLengths(Len(share_data)) :
       \E f \in {format_share_with_original_length(
                     share_id, share_data, original_secret_length, tape, 1, fail_at)} :
          /\ call' = [op |-> "format_share", share_id |-> share_id,
                      share_data |-> share_data,
                      original_secret_length |-> original_secret_length,
                      natural |-> encode_base62(
                                      Frame(share_id, original_secret_length, share_data)),
                      tape |-> tape, fail_at |-> fail_at]
          /\ result' = [Outcome(f) EXCEPT
                           !.value = IF f.ok
                                     THEN [framed |-> f.value,
                                           parsed |-> parse_base62_share(PyStr(f.value))]
                                     ELSE <<>>]
          /\ draws' = draws + f.calls
    /\ pc' = "done"
    /\ UNCHANGED <<tables, engines, objects, buffers, held, issue, sensitive_data_refs>>

\* the framer and the parser of share strings, called on their own
FrameNext ==
    \/ FormatAndParse

FrameSpec == Init /\ [][FrameNext]_vars


(***************************************************************************)
(* InputValidator.validate_shares_list called on its own.                  *)
(***************************************************************************)
\* shares long enough for validate_share_format: frames of three values and
\* dash-hex strings, some with the same ShareId, and strings it rejects
ListedShares ==
    {PyStr(encode_base62(Frame(1, 3, <<65, 66, 67>>))),
     PyStr(encode_base62(Frame(1, 3, <<88, 89, 90>>))),
     PyStr(encode_base62(Frame(2, 3, <<68, 69, 70>>))),
     PyStr(<<48, 49, 45, 52, 56, 54, 53, 54, 99, 54, 99, 54, 102>>),  \* "01-48656c6c6f"
     PyStr(<<48, 49, 45, 53, 50, 54, 53, 54, 99, 54, 99, 55, 48>>),   \* "01-52656c6c70"
     PyStr(<<49, 45, 53, 50, 54, 53, 54, 99, 54, 99, 55, 48>>),       \* "1-52656c6c70"
     PyStr(<<48, 50, 45, 53, 50, 54, 53, 54, 99, 54, 99, 55, 48>>),   \* "02-52656c6c70"
     PyStr(<<48, 50, 45, 53, 50, 54, 53, 54, 99, 54, 99, 55, 48, 10>>), \* the same and a newline
     PyStr(<<48, 49, 45, 52, 49>>),                                   \* "01-41"
     PyStr(<<48, 49, 45, 52, 56, 54, 53, 45, 54, 99, 54, 99, 54, 102>>), \* "01-4865-6c6c6f"
     PyStr(<<48, 49, 45, 52, 56, 54, 53, 32, 54, 99, 54, 99, 54, 102>>), \* "01-4865 6c6c6f"
     PyStr(<<>>),
     PyNone}

ListedLists ==
    {PyList(l) : l \in UNION {[1..n -> ListedShares] : n \in 0..MaxCraftedList}}
        \cup {PyNone}

ValidateSharesList ==
    /\ pc = "start"
    /\ \E shares \in ListedLists :
          /\ call' = [op |-> "validate_shares_list", shares |-> shares]
          /\ result' = Verdict(validate_shares_list(shares))
    /\ pc' = "done"
    /\ UNCHANGED <<tables, engines, objects, buffers, held, issue, draws, sensitive_data_refs>>

ValidatorNext ==
    \/ ValidateSharesList

ValidatorSpec == Init /\ [][ValidatorNext]_vars

(***************************************************************************)
(* Two instances side by side.  A call runs in steps, a step ending where  *)
(* the call reaches its instance's registry or a registered buffer:        *)
(* register_sensitive_data, the evaluation of a registered coefficients    *)
(* list, the interpolation of a registered points list, clear_memory, the  *)
(* return.  The steps of the two instances interleave in any order.  Each  *)
(* instance draws from the operating system's source, so the values it is  *)
(* given are its own tape.                                                 *)
(***************************************************************************)
\* the iterations of the byte loop of generate_shares taken step by step;
\* the iterations after them run as one step
MaxSteppedBytes == 1

GenerateCalls ==
    {[op |-> "generate_shares", secret |-> secret, total_shares |-> PyInt(2),
      threshold |-> PyInt(2), tape |-> tape, fail_at |-> 0] :
        secret \in {PyStr(<<65>>), PyStr(<<>>)}, tape \in {<<83, 255, 7>>}}
    \cup
    \* calls whose first random draw fails: a short secret, 5001 characters
    \* of two bytes each, 10001 characters of one byte each
    {[op |-> "generate_shares", secret |-> secret, total_shares |-> PyInt(2),
      threshold |-> PyInt(2), tape |-> <<83, 255, 7>>, fail_at |-> 1] :
        secret \in {PyStr(<<65>>), PyStr(Repeat(241, 5001)),
                    PyStr(Repeat(97, 10001))}}

\* what a call raises when the random source fails
RandomSourceFailed ==
    [ok |-> FALSE, value |-> <<>>, exc |-> "SecurityError",
     msg |-> CsprngUnavailable]

ReconstructCalls ==
    {[op |-> "reconstruct_secret", shares |-> shares] : shares \in
        {<<PyStr(<<48, 49, 45, 52, 49, 52, 50>>),        \* "01-4142"
           PyStr(<<48, 50, 45, 52, 49, 52, 50>>)>>,      \* "02-4142"
         <<PyStr(<<48, 49, 45, 52, 49>>),                \* "01-41"
           PyStr(<<48, 49, 45, 52, 49>>)>>,              \* "01-41"
         <<PyStr(<<48, 49, 45, 52, 49>>),                \* "01-41"
           PyStr(<<48, 50, 45, 52, 49, 52, 50>>)>>}}     \* "02-4142"

\* the call of instance i has moved to the state e
Moves(i, e) == engines' = [engines EXCEPT ![i] = e]

\* generate_shares up to the padding (lines 280-308)
CallGenerateShares ==
    /\ \E i \in Instances, c \in GenerateCalls :
          LET e      == engines[i]
              params == validate_share_parameters(c.total_shares, c.threshold)
              length == validate_secret_length(c.secret, DefaultMinLength,
                                               SplitMaxLength)
              secret_bytes == utf8_encode(c.secret.v)
              padding_needed == PaddingNeeded(Len(secret_bytes))
              begun == [NoLocal EXCEPT
                           !.data = PaddedSecret(secret_bytes, c.tape),
                           !.length = Len(secret_bytes)]
          IN  /\ e.pc = "idle"
              /\ IF ~params[1] \/ ~length[1]
                  THEN Moves(i, [e EXCEPT !.call = c, !.pc = "done",
                          !.result = [ok |-> FALSE, value |-> <<>>,
                                      exc |-> "ValueError",
                                      msg |-> IF ~params[1] THEN params[2]
                                              ELSE length[2]]])
                  ELSE IF c.fail_at >= 1 /\ c.fail_at <= padding_needed
                  THEN Moves(i, [e EXCEPT !.call = c, !.pc = "done",
                          !.heap = Append(@, DrawBytes(c.tape, 1, c.fail_at - 1)),
                          !.local = [NoLocal EXCEPT !.length = Len(secret_bytes)],
                          !.result = RandomSourceFailed])
                  ELSE IF padding_needed > 0
                  THEN Moves(i, [e EXCEPT !.call = c, !.pc = "register",
                          !.heap = Append(@, DrawBytes(c.tape, 1, padding_needed)),
                          !.local = [begun EXCEPT !.at = Len(e.heap) + 1,
                                                  !.then = "draw"]])
                  ELSE Moves(i, [e EXCEPT !.call = c, !.pc = "draw",
                                          !.local = begun])
    /\ UNCHANGED <<tables, objects, pc, call, result, buffers, held, issue, draws,
                   sensitive_data_refs>>

\* register_sensitive_data (security.py line 129) on the buffer just made
RegisterSensitiveData ==
    /\ \E i \in Instances :
          LET e == engines[i]
          IN  /\ e.pc = "register"
              /\ Moves(i, [e EXCEPT
                     !.sensitive_data_refs = Append(@, <<i, e.local.at>>),
                     !.pc = e.local.then])
    /\ UNCHANGED <<tables, objects, pc, call, result, buffers, held, issue, draws,
                   sensitive_data_refs>>

\* the coefficients list of the next byte (lines 318-327)
DrawCoefficients ==
    /\ \E i \in Instances :
          LET e          == engines[i]
              threshold  == IntOf(e.call.threshold)
              first_call == PaddingNeeded(e.local.length) + 1
              first_draw == first_call + e.local.byte_index * (threshold - 1)
          IN  /\ e.pc = "draw"
              /\ IF e.call.fail_at >= first_draw
                     /\ e.call.fail_at < first_draw + threshold - 1
                  THEN Moves(i, [e EXCEPT
                          !.heap = Append(@, CoefficientsAtFailure(e.local.data,
                                       e.call.tape, first_call, threshold,
                                       e.call.fail_at).content),
                          !.pending = RandomSourceFailed,
                          !.pc = "clear"])
                  ELSE Moves(i, [e EXCEPT
                          !.heap = Append(@, Coefficients(e.local.data,
                                       e.call.tape, first_call, threshold,
                                       e.local.byte_index + 1)),
                          !.local = [@ EXCEPT !.at = Len(e.heap) + 1,
                                              !.then = "evaluate"],
                          !.pc = "register"])
    /\ UNCHANGED <<tables, objects, pc, call, result, buffers, held, issue, draws,
                   sensitive_data_refs>>

\* the share values of the byte from its registered coefficients list
\* (lines 333-340)
EvaluateShares ==
    /\ \E i \in Instances :
          LET e            == engines[i]
              coefficients == e.heap[e.local.at]
              shares == List([share_index \in 1..IntOf(e.call.total_shares) |->
                            IF e.local.byte_index = 0
                            THEN <<share_index,
                                   evaluate_polynomial(coefficients, share_index)>>
                            ELSE Append(e.local.out[share_index],
                                   evaluate_polynomial(coefficients, share_index))])
          IN  /\ e.pc = "evaluate"
              /\ Moves(i, [e EXCEPT
                     !.local = [@ EXCEPT !.out = shares,
                                         !.byte_index = @ + 1],
                     !.pc = IF e.local.byte_index + 1 < MaxSteppedBytes
                            THEN "draw" ELSE "rest"])
    /\ UNCHANGED <<tables, objects, pc, call, result, buffers, held, issue, draws,
                   sensitive_data_refs>>

\* the remaining iterations of the byte loop, then the encoding loop (lines
\* 317-354)
RemainingBytes ==
    /\ \E i \in Instances :
          LET e          == engines[i]
              threshold  == IntOf(e.call.threshold)
              first_call == PaddingNeeded(e.local.length) + 1
              done       == e.local.byte_index
              last_call  == first_call + Len(e.local.data) * (threshold - 1) - 1
              fails      == e.call.fail_at >= first_call + done * (threshold - 1)
                            /\ e.call.fail_at <= last_call
              remaining  == IF fails
                            THEN (e.call.fail_at - first_call) \div (threshold - 1)
                                 - done
                            ELSE Len(e.local.data) - done
              lists  == List([j \in 1..remaining |->
                            Coefficients(e.local.data, e.call.tape, first_call,
                                         threshold, done + j)])
              shares == List([share_index \in 1..IntOf(e.call.total_shares) |->
                            e.local.out[share_index] \o
                            [j \in 1..remaining |->
                                evaluate_polynomial(lists[j], share_index)]])
              encoded == EncodeShares(shares, e.local.length, e.call.tape,
                                      e.call.fail_at, 1, last_call + 1, <<>>)
          IN  /\ e.pc = "rest"
              /\ IF fails
                  THEN Moves(i, [e EXCEPT
                          !.heap = (@ \o lists) \o
                                   <<CoefficientsAtFailure(e.local.data,
                                         e.call.tape, first_call, threshold,
                                         e.call.fail_at).content>>,
                          !.sensitive_data_refs =
                              @ \o [j \in 1..remaining |-> <<i, Len(e.heap) + j>>],
                          !.local = [@ EXCEPT !.out = shares,
                                              !.byte_index = done + remaining],
                          !.pending = RandomSourceFailed,
                          !.pc = "clear"])
                  ELSE Moves(i, [e EXCEPT
                          !.heap = @ \o lists,
                          !.sensitive_data_refs =
                              @ \o [j \in 1..remaining |-> <<i, Len(e.heap) + j>>],
                          !.local = [@ EXCEPT !.out = shares,
                                              !.byte_index = Len(e.local.data)],
                          !.pending = Outcome(GenerateEncoded(encoded)),
                          !.pc = "clear"])
    /\ UNCHANGED <<tables, objects, pc, call, result, buffers, held, issue, draws,
                   sensitive_data_refs>>

\* reconstruct_secret up to the byte loop (lines 375-431)
CallReconstructSecret ==
    /\ \E i \in Instances, c \in ReconstructCalls :
          LET e == engines[i]
              p == ParseLoop(List([k \in 1..Len(c.shares) |->
                                      ParseAttempt(c.shares[k])]), 1, None, <<>>)
          IN  /\ e.pc = "idle"
              /\ IF c.shares = <<>>
                  THEN Moves(i, [e EXCEPT !.call = c, !.pc = "done",
                          !.result = [ok |-> FALSE, value |-> <<>>,
                                      exc |-> "ValueError",
                                      msg |-> "No shares provided"]])
                  ELSE IF ~p.ok \/ p.parsed_shares = <<>>
                  THEN Moves(i, [e EXCEPT !.call = c, !.pc = "done",
                                          !.result = Outcome(AfterParse(p))])
                  ELSE Moves(i, [e EXCEPT !.call = c,
                          !.local = [NoLocal EXCEPT !.data = p.parsed_shares,
                                                    !.length = p.secret_length],
                          !.pending = IF p.secret_length = 0
                                      THEN Outcome(DecodeSecret(<<>>)) ELSE @,
                          !.pc = IF p.secret_length = 0 THEN "clear"
                                 ELSE "collect"])
    /\ UNCHANGED <<tables, objects, pc, call, result, buffers, held, issue, draws,
                   sensitive_data_refs>>

\* the points list of the next byte (lines 433-437)
CollectPoints ==
    /\ \E i \in Instances :
          LET e == engines[i]
          IN  /\ e.pc = "collect"
              /\ IF PointsRaise(e.local.data, e.local.byte_index + 1)
                  THEN Moves(i, [e EXCEPT
                          !.pending = [ok |-> FALSE, value |-> <<>>,
                                       exc |-> "IndexError",
                                       msg |-> "list index out of range"],
                          !.pc = "clear"])
                  ELSE Moves(i, [e EXCEPT
                          !.heap = Append(@, PointsAt(e.local.data,
                                                     e.local.byte_index + 1)),
                          !.local = [@ EXCEPT !.at = Len(e.heap) + 1,
                                              !.then = "interpolate"],
                          !.pc = "register"])
    /\ UNCHANGED <<tables, objects, pc, call, result, buffers, held, issue, draws,
                   sensitive_data_refs>>

\* the secret byte from the registered points list (lines 443-444); after
\* the last byte the decoding (lines 447-451)
InterpolatePoints ==
    /\ \E i \in Instances :
          LET e == engines[i]
              secret_byte  == lagrange_interpolation(e.heap[e.local.at], 0)
              secret_bytes == Append(e.local.out, secret_byte.value)
          IN  /\ e.pc = "interpolate"
              /\ IF ~secret_byte.ok
                  THEN Moves(i, [e EXCEPT !.pending = Outcome(secret_byte),
                                          !.pc = "clear"])
                  ELSE IF e.local.byte_index + 1 < e.local.length
                  THEN Moves(i, [e EXCEPT
                          !.local = [@ EXCEPT !.out = secret_bytes,
                                              !.byte_index = @ + 1],
                          !.pc = "collect"])
                  ELSE Moves(i, [e EXCEPT
                          !.local = [@ EXCEPT !.out = secret_bytes,
                                              !.byte_index = @ + 1],
                          !.pending = Outcome(DecodeSecret(secret_bytes)),
                          !.pc = "clear"])
    /\ UNCHANGED <<tables, objects, pc, call, result, buffers, held, issue, draws,
                   sensitive_data_refs>>

\* fault: the registry a class attribute, one list for every instance
RefsOfAllInstances(all, i) ==
    all[1].sensitive_data_refs \o all[2].sensitive_data_refs

\* self._sensitive_data_refs of instance i (security.py line 141)
RefsOfInstance(all, i) == all[i].sensitive_data_refs

\* ref.clear() on the buffers that refs names (security.py lines 141-151)
ClearedHeap(heap, owner, refs) ==
    List([k \in 1..Len(heap) |->
             IF \E n \in 1..Len(refs) : refs[n] = <<owner, k>> THEN <<>>
             ELSE heap[k]])

\* clear_memory in the finally block (security.py lines 131-156)
ClearMemory ==
    /\ \E i \in Instances :
          /\ engines[i].pc = "clear"
          /\ engines' = [j \in Instances |->
                 [engines[j] EXCEPT
                     !.heap = ClearedHeap(@, j, RefsOfInstance(engines, i)),
                     !.sensitive_data_refs = IF j = i THEN <<>> ELSE @,
                     !.pc = IF j = i THEN "return" ELSE @]]
    /\ UNCHANGED <<tables, objects, pc, call, result, buffers, held, issue, draws,
                   sensitive_data_refs>>

\* the call returns or raises what is pending
ReturnOrRaise ==
    /\ \E i \in Instances :
          LET e == engines[i]
          IN  /\ e.pc = "return"
              /\ Moves(i, [e EXCEPT !.result = e.pending, !.pc = "done"])
    /\ UNCHANGED <<tables, objects, pc, call, result, buffers, held, issue, draws,
                   sensitive_data_refs>>

InstancesNext ==
    \/ CallGenerateShares
    \/ RegisterSensitiveData
    \/ DrawCoefficients
    \/ EvaluateShares
    \/ RemainingBytes
    \/ CallReconstructSecret
    \/ CollectPoints
    \/ InterpolatePoints
    \/ ClearMemory
    \/ ReturnOrRaise

InstancesSpec == Init /\ [][InstancesNext]_vars

(***************************************************************************)
(* One engine whose caller registers objects of its own: a sequence of     *)
(* register_sensitive_data, clear_memory, generate_shares and              *)
(* reconstruct_secret calls.                                               *)
(***************************************************************************)
\* the objects the caller has at most
MaxRegistered == 1

\* the types whose instances have a clear method
HasClear == {"list", "dict", "bytearray"}

\* what the caller registers: an object of a type, its items, and the number
\* of memoryview objects that export its buffer
CallerObjects ==
    {[kind |-> "list", content |-> <<115, 101>>, exports |-> 0],
     [kind |-> "dict", content |-> <<115, 101>>, exports |-> 0],
     [kind |-> "bytearray", content |-> <<115, 101>>, exports |-> 0],
     [kind |-> "bytearray", content |-> <<115, 101>>, exports |-> 1],
     [kind |-> "bytes", content |-> <<115, 101>>, exports |-> 0]}

\* one round of the loop of clear_memory (security.py lines 141-151):
\* ref.clear() where the object has it.  bytearray.clear() raises BufferError
\* while the buffer is exported, and the except clause passes over it.  A
\* bytes object has neither clear nor __dict__.
ClearRef(o) ==
    IF o.kind \in HasClear /\ ~(o.kind = "bytearray" /\ o.exports > 0)
    THEN [o EXCEPT !.content = <<>>]
    ELSE o

\* the caller's objects after clear_memory on the registry refs
ClearRegistered(objs, refs) ==
    List([k \in 1..Len(objs) |->
             IF \E n \in 1..Len(refs) : refs[n] = k THEN ClearRef(objs[k])
             ELSE objs[k]])

\* register_sensitive_data on a new object or on one registered before
RegisterCallerData ==
    /\ pc \in {"start", "called"}
    /\ Len(sensitive_data_refs) <= MaxRegistered
    /\ \/ \E o \in CallerObjects :
             /\ Len(objects) < MaxRegistered
             /\ objects' = Append(objects, o)
             /\ sensitive_data_refs' = Append(sensitive_data_refs, Len(objects) + 1)
       \/ \E k \in 1..Len(objects) :
             /\ objects' = objects
             /\ sensitive_data_refs' = Append(sensitive_data_refs, k)
    /\ call' = [op |-> "register_sensitive_data", cleared |-> FALSE]
    /\ result' = NoResult
    /\ UNCHANGED <<tables, engines, pc, buffers, held, issue, draws>>

\* clear_memory called by the caller
ClearMemoryCalled ==
    /\ pc \in {"start", "called"}
    /\ objects' = ClearRegistered(objects, sensitive_data_refs)
    /\ sensitive_data_refs' = <<>>
    /\ call' = [op |-> "clear_memory", cleared |-> TRUE]
    /\ result' = NoResult
    /\ UNCHANGED <<tables, engines, pc, buffers, held, issue, draws>>

\* generate_shares while the registry holds the caller's objects: its
\* finally block clears them with its own buffers
GenerateSharesRegistered ==
    /\ pc = "start"
    /\ \E secret \in {PyStr(<<65>>), PyStr(<<>>)}, fail_at \in FailPoints :
          \E r \in {generate_shares(secret, PyInt(2), PyInt(2), <<83, 255, 7>>,
                                     fail_at)} :
              /\ call' = [op |-> "generate_shares", secret |-> secret,
                          fail_at |-> fail_at, cleared |-> r.cleared]
              /\ result' = Outcome(r)
              /\ draws' = draws + r.calls
              /\ buffers' = r.left
              /\ sensitive_data_refs' = AfterCall(r)
              /\ objects' = IF r.cleared
                            THEN ClearRegistered(objects, sensitive_data_refs)
                            ELSE objects
    /\ pc' = "called"
    /\ UNCHANGED <<tables, engines, held, issue>>

\* reconstruct_secret while the registry holds the caller's objects
ReconstructSecretRegistered ==
    /\ pc = "start"
    /\ \E c \in ReconstructCalls :
          \E r \in {reconstruct_secret(c.shares)} :
              /\ call' = [op |-> "reconstruct_secret", shares |-> c.shares,
                          cleared |-> r.cleared]
              /\ result' = Outcome(r)
              /\ sensitive_data_refs' = AfterCall(r)
              /\ objects' = IF r.cleared
                            THEN ClearRegistered(objects, sensitive_data_refs)
                            ELSE objects
    /\ pc' = "called"
    /\ UNCHANGED <<tables, engines, buffers, held, issue, draws>>

RegistryNext ==
    \/ RegisterCallerData
    \/ ClearMemoryCalled
    \/ GenerateSharesRegistered
    \/ ReconstructSecretRegistered

RegistrySpec == Init /\ [][RegistryNext]_vars

(***************************************************************************)
(* A caller that validates before it combines, as the reconstruct handler  *)
(* of the window does (main_window.py lines 735-741): validate_shares on   *)
(* the list and, if that returns valid, reconstruct_secret on the same     *)
(* list.                                                                   *)
(***************************************************************************)
\* what the caller has after the two calls on shares with the parse attempts
\* given: the verdict, then the ids and lengths of the shares that
\* reconstruct_secret parsed and what it returned or raised; r is the outcome
\* of reconstruct_secret
Validated(verdict, attempts, r) ==
    LET p == ParseLoop(attempts, 1, None, <<>>)
    IN  [ok |-> TRUE, value |-> verdict, exc |-> "", msg |-> "",
         combined |-> verdict[1],
         parsed |-> IF verdict[1] /\ p.ok
                    THEN List([k \in 1..Len(p.parsed_shares) |->
                                  <<p.parsed_shares[k][1],
                                    Len(p.parsed_shares[k][2])>>])
                    ELSE <<>>,
         outcome |-> IF verdict[1] THEN Outcome(r) ELSE NoResult]

\* the two calls on shares picked from those the caller holds
ValidateThenReconstructIssued ==
    /\ pc = "issued"
    /\ \E attempts \in {List([j \in 1..Len(held) |-> ParseAttempt(PyStr(held[j]))])} :
       \E pick \in Picks(Len(held)) :
       \E picked \in {List([i \in 1..Len(pick) |-> attempts[pick[i]]])} :
       \E shares \in {List([i \in 1..Len(pick) |-> PyStr(held[pick[i]])])} :
       \E verdict \in {ValidateParsed(shares,
                            List([i \in 1..Len(pick) |-> picked[i].b62]))} :
       \E r \in {ReconstructFromAttempts(picked)} :
          /\ call' = [op |-> "validate_then_reconstruct", shares |-> shares,
                      pick |-> pick]
          /\ result' = Validated(verdict, picked, r)
          /\ sensitive_data_refs' = IF verdict[1] THEN AfterCall(r)
                                    ELSE sensitive_data_refs
    /\ pc' = "done"
    /\ UNCHANGED <<tables, engines, objects, buffers, held, issue, draws>>

\* the two calls on a list written by hand
ValidateThenReconstructCrafted ==
    /\ pc = "start"
    /\ \E shares \in CraftedLists :
       \E attempts \in {List([i \in 1..Len(shares) |-> ParseAttempt(shares[i])])} :
       \E verdict \in {ValidateParsed(shares,
                            List([i \in 1..Len(shares) |-> attempts[i].b62]))} :
       \E r \in {ReconstructFromAttempts(attempts)} :
          /\ call' = [op |-> "validate_then_reconstruct", shares |-> shares,
                      pick |-> <<>>]
          /\ result' = Validated(verdict, attempts, r)
          /\ sensitive_data_refs' = IF verdict[1] THEN AfterCall(r)
                                    ELSE sensitive_data_refs
    /\ pc' = "done"
    /\ UNCHANGED <<tables, engines, objects, buffers, held, issue, draws>>

CallerNext ==
    \/ GenerateShares
    \/ ValidateThenReconstructIssued
    \/ ValidateThenReconstructCrafted

CallerSpec == Init /\ [][CallerNext]_vars

(***************************************************************************)
(* Properties.                                                             *)
(***************************************************************************)
\* the last call was generate_shares
IsSplit == call.op = "generate_shares"

\* the last call was reconstruct_secret on shares of an earlier generate_shares
IsCombineOfIssued ==
    call.op = "reconstruct_secret" /\ issue.op = "generate_shares"

\* the last call was reconstruct_secret on a list written by hand
IsCombineOfCrafted ==
    call.op = "reconstruct_secret" /\ issue.op = "none"

\* the parameters the specification admits: integers with 2 <= K <= N <= 255
InRange(total_shares, threshold) ==
    /\ total_shares.t = "int"
    /\ threshold.t = "int"
    /\ IntOf(total_shares) >= 2
    /\ IntOf(total_shares) <= 255
    /\ IntOf(threshold) >= 2
    /\ IntOf(threshold) <= IntOf(total_shares)

\* the secrets the specification rejects on the split path
RejectedSecret(secret) ==
    \/ secret.t # "str"
    \/ Len(secret.v) = 0
    \/ Len(secret.v) > 10000
    \/ \E i \in 1..Len(secret.v) : secret.v[i] = 0

InvalidParamsMessages ==
    {"Share parameters must be integers", "Total shares must be at least 2",
     "Total shares cannot exceed 255", "Threshold must be at least 2",
     "Threshold cannot exceed total shares"}

InvalidSecretMessages ==
    {"Secret must be a string", "Secret must be at least {min_length} characters",
     "Secret cannot exceed {max_length} characters",
     "Secret cannot contain null bytes"}

\* C1: reconstruct_secret applied to any K of the shares issued by
\* generate_shares(S, N, K), in any order, returns exactly S.
C1_ThresholdSharesReturnSecret ==
    (IsCombineOfIssued /\ Len(call.pick) = IntOf(issue.threshold))
        => (result.ok /\ result.value = issue.secret)

\* shares 3 and 1 of a 2-of-3 split of a two-character, six-byte secret
C1_Witness ==
    /\ IsCombineOfIssued
    /\ call.pick = <<3, 1>>
    /\ IntOf(issue.threshold) = 2
    /\ issue.secret = PyStr(<<241, 128274>>)
    /\ issue.tape = <<83, 255, 7>>
    /\ result.ok
    /\ result.value = issue.secret

\* the number of coefficients c_1 in the range generate_shares draws from with
\* which the plaintext byte s gives the value y at share id x, for threshold 2
ConsistentCoefficients(x, y, s) ==
    Cardinality({c \in RandomIntRange(1, 255) :
                    evaluate_polynomial(<<s, c>>, x) = y})

\* the value of the first byte position in an issued share
FirstValue(share) == parse_base62_share(PyStr(share)).values[1]

\* C2: K-1 shares yield no information about the secret; at threshold 2, for
\* the first byte position and each issued share, every candidate plaintext
\* byte 0..255 is consistent with the same number of coefficients.
C2_CandidatesEquallyConsistent ==
    (IsSplit /\ result.ok /\ IntOf(call.threshold) = 2)
        => \A x \in 1..Len(result.value) :
              \A s \in 0..255 :
                 ConsistentCoefficients(x, FirstValue(result.value[x]), s)
                     = ConsistentCoefficients(x, FirstValue(result.value[x]), 0)

\* C3: reconstruct_secret applied to more than K of the shares issued by
\* generate_shares(S, N, K) also returns exactly S.
C3_ExtraSharesReturnSecret ==
    (IsCombineOfIssued /\ Len(call.pick) > IntOf(issue.threshold))
        => (result.ok /\ result.value = issue.secret)

\* all three shares of a 2-of-3 split, out of order
C3_Witness ==
    /\ IsCombineOfIssued
    /\ call.pick = <<2, 3, 1>>
    /\ IntOf(issue.threshold) = 2
    /\ issue.secret = PyStr(<<72, 105>>)
    /\ result.ok
    /\ result.value = issue.secret

\* 0-9, A-Z, a-z
IsAlphanumeric(c) ==
    (c >= 48 /\ c <= 57) \/ (c >= 65 /\ c <= 90) \/ (c >= 97 /\ c <= 122)

\* C4: every string returned by generate_shares has at least 250 characters,
\* all of them of the Base62 alphabet 0-9A-Za-z.
C4_SharesLongAndBase62 ==
    (IsSplit /\ result.ok)
        => \A j \in 1..Len(result.value) :
              /\ Len(result.value[j]) >= 250
              /\ \A k \in 1..Len(result.value[j]) :
                     IsAlphanumeric(result.value[j][k])

\* three shares of the 200-byte secret, which is not padded
C4_Witness ==
    /\ IsSplit
    /\ result.ok
    /\ Len(result.value) = 3
    /\ Len(call.secret.v) = 200
    /\ Len(result.value[3]) >= 250

\* the ShareId a share string carries, 0 for a string that does not parse
CarriedId(share) ==
    LET p == parse_base62_share(PyStr(share))
    IN  IF p.ok THEN p.id ELSE 0

\* C5: generate_shares(S, N, K) returns exactly N strings; the j-th carries
\* ShareId j, so the ids are pairwise distinct, in 1..255 and never 0.
C5_SharesNumberedFromOne ==
    (IsSplit /\ result.ok)
        => /\ Len(result.value) = IntOf(call.total_shares)
           /\ \A j \in 1..Len(result.value) :
                  /\ CarriedId(result.value[j]) = j
                  /\ j >= 1
                  /\ j <= 255

\* a 3-of-3 split
C5_Witness ==
    /\ IsSplit
    /\ result.ok
    /\ IntOf(call.total_shares) = 3
    /\ IntOf(call.threshold) = 3
    /\ CarriedId(result.value[3]) = 3

\* C6: generate_shares fails with an InvalidParams ValueError and no shares
\* exactly when total_shares or threshold is not an integer or not
\* 2 <= threshold <= total_shares <= 255; validate_share_parameters accepts
\* exactly the pairs in that range.
C6_InvalidParamsExactlyOutOfRange ==
    /\ IsSplit
          => ((~result.ok /\ result.exc = "ValueError"
                 /\ result.msg \in InvalidParamsMessages /\ held = <<>>)
              <=> ~InRange(call.total_shares, call.threshold))
    /\ call.op = "validate_share_parameters"
          => (result.value[1] <=> InRange(call.total_shares, call.threshold))

\* 300 shares asked for, with a threshold and a secret that are fine
C6_Witness ==
    /\ IsSplit
    /\ call.total_shares = PyInt(300)
    /\ call.threshold = PyInt(2)
    /\ call.secret = PyStr(<<65>>)
    /\ ~result.ok
    /\ result.msg = "Total shares cannot exceed 255"

\* C7 as stated: generate_shares fails with an InvalidSecret ValueError, no
\* shares and no random draw whenever the secret is not a string, empty,
\* longer than 10 000 characters or contains NUL.
C7_RejectedSecretGivesInvalidSecret ==
    (IsSplit /\ RejectedSecret(call.secret))
        => /\ ~result.ok
           /\ result.exc = "ValueError"
           /\ result.msg \in InvalidSecretMessages
           /\ held = <<>>
           /\ draws = 0

\* C7: generate_shares with such a secret fails with a ValueError, no shares
\* and no random draw; the error is the InvalidSecret one when the parameters
\* are in range and the InvalidParams one when they are not, the parameters
\* being validated first.  Every string of 1..10 000 characters without NUL,
\* and no other value, passes validate_secret_length with the split limit.
C7_RejectedSecretFailsWithoutDraws ==
    /\ (IsSplit /\ RejectedSecret(call.secret))
          => /\ ~result.ok
             /\ result.exc = "ValueError"
             /\ held = <<>>
             /\ draws = 0
             /\ result.msg \in
                    (IF InRange(call.total_shares, call.threshold)
                     THEN InvalidSecretMessages ELSE InvalidParamsMessages)
    /\ (call.op = "validate_secret_length" /\ call.max_length = 10000)
          => (result.value[1] <=> ~RejectedSecret(call.secret))

\* a secret with a NUL inside, the parameters in range
C7_Witness ==
    /\ IsSplit
    /\ call.secret = PyStr(<<65, 0, 66>>)
    /\ InRange(call.total_shares, call.threshold)
    /\ ~result.ok
    /\ result.msg = "Secret cannot contain null bytes"
    /\ draws = 0

\* C8: reconstruct_secret on a list of exactly one share fails; it never
\* returns a string for fewer than two shares.
C8_SingleShareRejected ==
    (call.op = "reconstruct_secret" /\ Len(call.shares) < 2) => ~result.ok

\* two shares carry the same ShareId
SameShareId(a, b) ==
    LET pa == parse_base62_share(a)
        pb == parse_base62_share(b)
    IN  pa.ok /\ pb.ok /\ pa.id = pb.id

\* C9: reconstruct_secret on a list in which two shares carry the same ShareId
\* fails and never returns a string, also when the declared length L is 0.
C9_DuplicateShareIdRejected ==
    (IsCombineOfCrafted
        /\ \E i, j \in 1..Len(call.shares) :
               i # j /\ SameShareId(call.shares[i], call.shares[j]))
        => ~result.ok

\* the share is in the current format and declares the original length n
DeclaresLength(share, n) ==
    /\ parse_base62_share(share).ok
    /\ Len(decode_base62(share.v)) >= 5
    /\ FromBytes2(decode_base62(share.v), 2) = n

\* C10: reconstruct_secret fails whenever two shares of the list declare
\* different original lengths L, in whichever order they are listed.
C10_DifferentLengthsRejected ==
    (IsCombineOfCrafted
        /\ \E i, j \in 1..Len(call.shares) :
               \E m, n \in 0..2 :
                  /\ m # n
                  /\ DeclaresLength(call.shares[i], m)
                  /\ DeclaresLength(call.shares[j], n))
        => ~result.ok

\* C11: reconstruct_secret on any list of strings either returns a string or
\* raises ValueError; no IndexError or other exception reaches the caller.
C11_OnlyValueErrorEscapes ==
    call.op = "reconstruct_secret"
        => (result.ok \/ result.exc = "ValueError")

\* "01-41" and "02--f", a dash-hex string whose value is -15: the two points
\* interpolate to a byte that is not UTF-8 text
C11_Witness ==
    /\ IsCombineOfCrafted
    /\ call.shares = <<PyStr(<<48, 49, 45, 52, 49>>), PyStr(<<48, 50, 45, 45, 102>>)>>
    /\ ~result.ok
    /\ result.exc = "ValueError"
    /\ result.msg = "Reconstructed data is not valid UTF-8"

\* a byte vector without its leading zero bytes
RECURSIVE WithoutLeadingZeroBytes(_)
WithoutLeadingZeroBytes(v) ==
    IF v # <<>> /\ v[1] = 0 THEN WithoutLeadingZeroBytes(Tail(v)) ELSE v

IsAllZero(v) == \A i \in 1..Len(v) : v[i] = 0

IsCodec == call.op = "encode_base62"

IsField == call.op = "gf_mult"

\* C13: for all a, b in 0..255, _gf_mult(a, 1) = a, _gf_mult(a, 0) = 0,
\* _gf_mult(a, b) = _gf_mult(b, a), _gf_div(_gf_mult(a, b), b) = a for b # 0,
\* and _gf_div(a, 0) raises the division-by-zero ValueError for a # 0.
C13_FieldLaws ==
    IsField
        => /\ result.value.by_one = call.a
           /\ result.value.by_zero = 0
           /\ result.value.product = result.value.swapped
           /\ call.b # 0
                  => /\ result.value.quotient.ok
                     /\ result.value.quotient.value = call.a
           /\ call.a # 0
                  => /\ ~result.value.over_zero.ok
                     /\ result.value.over_zero.exc = "ValueError"
                     /\ result.value.over_zero.msg = "Division by zero in GF(256)"

\* 0x57 * 0x83 = 0xc1 in the field of polynomial 0x11b, and back
C13_Witness ==
    /\ IsField
    /\ call.a = 87
    /\ call.b = 131
    /\ result.value.product = 193
    /\ result.value.quotient.value = 87

IsFrame == call.op = "format_share"

\* C14: _format_share_with_original_length returns exactly 250 characters
\* whenever the Base62 text of the header and the share values is shorter than
\* 250 characters, and that text unchanged otherwise.
C14_FramedToExactly250 ==
    (IsFrame /\ result.ok)
        => IF Len(call.natural) < 250
           THEN Len(result.value.framed) = 250
           ELSE result.value.framed = call.natural

\* C15: parsing what _format_share_with_original_length(id, values, L)
\* returns gives back id and the first L values, with or without filler.
C15_FrameParsesBack ==
    (IsFrame /\ result.ok)
        => /\ result.value.parsed.ok
           /\ result.value.parsed.id = call.share_id
           /\ result.value.parsed.values
                  = SubSeq(call.share_data, 1, call.original_secret_length)

\* C16: on every exit path of generate_shares, every coefficient list and the
\* padding buffer created during the call have been cleared.
C16_BuffersClearedOnExit ==
    IsSplit => buffers = <<>>

\* the call passes both validations and the UTF-8 encoding, so it goes on to
\* draw padding or coefficients
ReachesDraws ==
    /\ InRange(call.total_shares, call.threshold)
    /\ ~RejectedSecret(call.secret)
    /\ ~Utf8EncodeRaises(call.secret.v)

\* C17: when the self-test of the random source fails (unavailable, wrong
\* length, two equal draws), secure_random_int and secure_random_bytes raise
\* SecurityError and return no value, and a generate_shares call that makes
\* the failing draw raises SecurityError and returns no share.
C17_FailedSelfTestRaises ==
    /\ call.op \in {"secure_random_int", "secure_random_bytes"}
          => IF call.source.raises
                \/ Len(call.source.first) # 32
                \/ call.source.first = call.source.second
             THEN ~result.ok /\ result.exc = "SecurityError" /\ result.value = <<>>
             ELSE result.ok
    /\ (IsSplit /\ call.fail_at >= 1 /\ ReachesDraws)
          => /\ ~result.ok
             /\ result.exc = "SecurityError"
             /\ result.value = <<>>
             /\ held = <<>>
             /\ draws = call.fail_at

\* the source fails at the first coefficient draw of a 2-of-3 split
C17_Witness ==
    /\ IsSplit
    /\ call.secret = PyStr(<<65>>)
    /\ call.total_shares = PyInt(3)
    /\ call.threshold = PyInt(2)
    /\ call.fail_at = 200
    /\ ~result.ok
    /\ result.exc = "SecurityError"
    /\ held = <<>>

IsValidateShares == call.op = "validate_shares"

\* what reconstruct_secret's parsers make of a share: the Base62 frame first,
\* the dash-hex form if that fails
Parsed(share) ==
    LET b == parse_base62_share(share)
    IN  IF b.ok THEN [ok |-> TRUE, id |-> b.id, values |-> b.values, hex |-> FALSE]
        ELSE LET h == parse_hex_share(share)
             IN  IF h.ok
                 THEN [ok |-> TRUE, id |-> h.id, values |-> h.values, hex |-> TRUE]
                 ELSE [ok |-> FALSE, id |-> 0, values |-> <<>>, hex |-> FALSE]

ParsedShares(shares) == List([i \in 1..Len(shares) |-> Parsed(shares[i])])

\* the parsed shares p are at least two, all parse, carry pairwise distinct
\* ShareIds and have value vectors of one length
ParseDistinctEqual(p) ==
    /\ Len(p) >= 2
    /\ \A i \in 1..Len(p) : p[i].ok
    /\ \A i, j \in 1..Len(p) :
           /\ i # j => p[i].id # p[j].id
           /\ Len(p[i].values) = Len(p[j].values)

\* none of them is a dash-hex share without values, such as "01-"
HexHaveValues(p) ==
    \A i \in 1..Len(p) : p[i].hex => p[i].values # <<>>

\* C18 as stated: validate_shares returns (True, "") exactly when the list
\* holds at least 2 strings that all parse, carry pairwise distinct ShareIds
\* and have equal value-vector lengths, and (False, message) otherwise.
C18_ValidExactlyWhenParsedDistinctEqual ==
    IsValidateShares
        => /\ result.ok
           /\ result.value[1] <=> ParseDistinctEqual(ParsedShares(call.shares))
           /\ result.value[1] <=> (result.value[2] = "")

\* the verdict v of validate_shares on shares that parse as p
VerdictMatches(v, p) ==
    /\ v[1] <=> (ParseDistinctEqual(p) /\ HexHaveValues(p))
    /\ v[1] <=> (v[2] = "")

\* C18: validate_shares never raises; it returns (True, "") exactly when the
\* list holds at least 2 strings that all parse as a Base62 frame or as a
\* dash-hex share with at least one value, carry pairwise distinct ShareIds
\* and have equal value-vector lengths, and (False, non-empty message)
\* otherwise; it accepts every pick of two or more issued shares and rejects
\* the empty list.
C18_ValidExactlyWhenParsedWithValues ==
    IsValidateShares
        => /\ result.ok
           /\ VerdictMatches(result.value, ParsedShares(call.shares))
           /\ (issue.op = "generate_shares" /\ Len(call.shares) >= 2)
                  => result.value[1]
           /\ call.shares = <<>> => ~result.value[1]

\* all three shares of a split, out of order, are accepted
C18_Witness ==
    /\ IsValidateShares
    /\ issue.op = "generate_shares"
    /\ call.pick = <<3, 1, 2>>
    /\ result.value = <<TRUE, "">>

\* C19: validate_shares_list rejects every list in which two shares carry the
\* same ShareId, in Base62 frame form or in dash-separated form.
C19_SameShareIdRejected ==
    (call.op = "validate_shares_list"
        /\ \E i, j \in 1..Len(call.shares.v) :
               /\ i # j
               /\ Parsed(call.shares.v[i]).ok
               /\ Parsed(call.shares.v[j]).ok
               /\ Parsed(call.shares.v[i]).id = Parsed(call.shares.v[j]).id)
        => ~result.value[1]

\* what the call c returns or raises on an instance that runs alone
ResultAlone(c) ==
    IF c.op = "generate_shares"
    THEN Outcome(generate_shares(c.secret, c.total_shares, c.threshold,
                                 c.tape, c.fail_at))
    ELSE Outcome(reconstruct_secret(c.shares))

\* every instance holds the tables __init__ built, and a finished call has
\* the result of the same call run alone
ResultsAsAlone ==
    \A i \in Instances :
        /\ engines[i].exp_table = exp_table
        /\ engines[i].log_table = log_table
        /\ engines[i].pc = "done" => engines[i].result = ResultAlone(engines[i].call)

\* a step changes the tables, registry, buffers and call of one instance only
OneInstancePerStep ==
    \A i, j \in Instances :
        (i # j /\ engines'[i] # engines[i]) => engines'[j] = engines[j]

\* C20: two instances whose generate_shares and reconstruct_secret steps
\* interleave in any order each produce the result of the call run alone, and
\* no step of one instance, its clear_memory included, changes the tables,
\* the registry or the in-flight buffers of the other.
C20_InstancesDoNotInterfere ==
    []ResultsAsAlone /\ [][OneInstancePerStep]_vars

\* instance 1 is about to evaluate a coefficients list it has registered
\* while instance 2 has run clear_memory on its points lists and is about to
\* return the secret
C20_Witness ==
    /\ engines[1].pc = "evaluate"
    /\ engines[1].heap[engines[1].local.at] # <<>>
    /\ engines[1].sensitive_data_refs # <<>>
    /\ engines[2].pc = "return"
    /\ engines[2].call.op = "reconstruct_secret"
    /\ engines[2].pending.ok
    /\ engines[2].heap # <<>>
    /\ \A k \in 1..Len(engines[2].heap) : engines[2].heap[k] = <<>>

\* C21: whenever clear_memory has returned, called by the caller or at the exit
\* of generate_shares or reconstruct_secret, every list, dict or bytearray
\* registered since the clear before is empty and the registry is empty.
C21_RegisteredEmptyAfterClear ==
    (call.op \in {"register_sensitive_data", "clear_memory", "generate_shares",
                  "reconstruct_secret"}
        /\ "cleared" \in DOMAIN call /\ call.cleared)
        => /\ sensitive_data_refs = <<>>
           /\ \A k \in 1..Len(objects) :
                  objects[k].kind \in HasClear => objects[k].content = <<>>

\* x to the power m in GF(256)
RECURSIVE GfPower(_, _)
GfPower(x, m) == IF m = 0 THEN 1 ELSE gf_mult(x, GfPower(x, m - 1))

\* the sum over m in 1..n of c[m] * x^m, written term by term
RECURSIVE PowerSum(_, _, _)
PowerSum(c, x, n) ==
    IF n = 0 THEN 0
    ELSE Xor(PowerSum(c, x, n - 1), gf_mult(c[n], GfPower(x, n)))

\* the coefficients c_1..c_{K-1} drawn for byte position i of the split
DrawnCoefficients(i) ==
    DrawBytes(call.tape,
              PaddingNeeded(Len(utf8_encode(call.secret.v))) + 1
                  + (i - 1) * (IntOf(call.threshold) - 1),
              IntOf(call.threshold) - 1)

\* the bytes that follow the 5-byte header in the frame a share string encodes
FramedValues(share) ==
    LET decoded_bytes == decode_base62(share)
    IN  Slice(decoded_bytes, 5, Len(decoded_bytes))

\* C22: for every byte position i of a split the coefficients c_1..c_{K-1}
\* drawn for it are all in 1..255, and the value of every share j at i is
\* PaddedBytes[i] XOR the sum of c_m * j^m over m in 1..K-1.
C22_SharesOnOnePolynomial ==
    (IsSplit /\ result.ok)
        => LET padded == PaddedSecret(utf8_encode(call.secret.v), call.tape)
           IN  /\ \A i \in 1..Len(padded) :
                      \A n \in 1..(IntOf(call.threshold) - 1) :
                          DrawnCoefficients(i)[n] \in 1..255
               /\ \A j \in 1..Len(result.value) :
                      LET values == FramedValues(result.value[j])
                      IN  /\ Len(values) = Len(padded)
                          /\ \A i \in 1..Len(padded) :
                                 values[i] = Xor(padded[i],
                                     PowerSum(DrawnCoefficients(i), j,
                                              IntOf(call.threshold) - 1))

\* a 2-of-3 split of "Hi" with the tape 83, 255, 7
C22_Witness ==
    /\ IsSplit
    /\ result.ok
    /\ call.secret = PyStr(<<72, 105>>)
    /\ IntOf(call.total_shares) = 3
    /\ IntOf(call.threshold) = 2
    /\ call.tape = <<83, 255, 7>>
    /\ FramedValues(result.value[3])[1]
           = Xor(72, gf_mult(DrawnCoefficients(1)[1], 3))

\* the padded plaintext that the first K of the shares of a split determine:
\* at every position the value at x = 0 of the polynomial through their points
PaddedBytesOf(shares, threshold) ==
    LET values == List([j \in 1..threshold |-> FramedValues(shares[j])])
    IN  List([i \in 1..Len(values[1]) |->
                 lagrange_interpolation(
                     List([j \in 1..threshold |-> <<j, values[j][i]>>]), 0).value])

\* C23: all N shares of a split record the same original length L, the number
\* of UTF-8 bytes of the secret, and the same padded length P = max(L, 200);
\* each carries exactly P values; the first L bytes of the padded plaintext
\* are the secret's bytes and each of the P - L filler bytes is in 1..255.
C23_SharesAgreeOnLengths ==
    (IsSplit /\ result.ok)
        => LET secret_bytes == utf8_encode(call.secret.v)
               L == Len(secret_bytes)
               P == IF L > 200 THEN L ELSE 200
               padded == PaddedBytesOf(result.value, IntOf(call.threshold))
           IN  /\ \A j \in 1..Len(result.value) :
                      LET decoded_bytes == decode_base62(result.value[j])
                      IN  /\ FromBytes2(decoded_bytes, 2) = L
                          /\ FromBytes2(decoded_bytes, 4) = P
                          /\ Len(decoded_bytes) = 5 + P
               /\ Len(padded) = P
               /\ \A i \in 1..P :
                      IF i <= L THEN padded[i] = secret_bytes[i]
                      ELSE padded[i] \in 1..255

\* a split of the two-character secret of 6 bytes, padded with 194 bytes
C23_Witness ==
    /\ IsSplit
    /\ result.ok
    /\ call.secret = PyStr(<<241, 128274>>)
    /\ FromBytes2(decode_base62(result.value[1]), 2) = 6
    /\ FromBytes2(decode_base62(result.value[2]), 4) = 200
    /\ Len(FramedValues(result.value[2])) = 200

\* the last call was _parse_base62_share
IsParse == call.op = "parse_base62_share"

\* C24: a current-format share whose decoded bytes are at least 5 parses
\* whenever 1 <= ShareId <= 255 and at least P bytes follow the header: the
\* first P of them are the share values (of which the parser returns those
\* before the original length L) and bytes after them are ignored; it fails
\* with the length mismatch only when fewer than P bytes follow.
C24_ParsesWithAtLeastP ==
    IsParse
        => LET decoded_bytes == decode_base62(call.share_str)
               L == FromBytes2(decoded_bytes, 2)
               P == FromBytes2(decoded_bytes, 4)
           IN  (Len(decoded_bytes) >= 5 /\ decoded_bytes[1] \in 1..255)
                   => IF Len(decoded_bytes) - 5 >= P
                      THEN /\ result.ok
                           /\ result.value = <<decoded_bytes[1],
                                   Slice(Slice(decoded_bytes, 5, 5 + P), 0, L)>>
                      ELSE /\ ~result.ok
                           /\ result.msg = "Failed to parse share: Share data length mismatch"

\* C25: a legacy share Base62([ShareId][L][L values]) with ShareId and L in
\* 1..255 parses to (ShareId, the L values) for every L; a string that decodes
\* to fewer than 2 bytes fails with "Share too short".
C25_LegacyParsesForEveryLength ==
    IsParse
        => /\ (call.format = "legacy")
                 => /\ result.ok
                    /\ result.value = <<call.data[1],
                                         Slice(call.data, 2, 2 + call.data[2])>>
           /\ Len(decode_base62(call.share_str)) < 2
                 => /\ ~result.ok
                    /\ result.msg = "Failed to parse share: Share too short"

\* C26: no call of _gf_div made by the interpolation of reconstruct_secret
\* has a zero denominator, for every list of share strings, so the division
\* by zero of _gf_div is never raised.
C26_NoDivisionByZero ==
    call.op = "reconstruct_secret"
        => /\ result.msg # "Division by zero in GF(256)"
           /\ IsCombineOfCrafted
                 => LET p == ParseLoop(List([k \in 1..Len(call.shares) |->
                                 ParseAttempt(call.shares[k])]), 1, None, <<>>)
                    IN  (call.shares # <<>> /\ p.ok)
                          => \A byte_index \in 1..p.secret_length :
                                ~PointsRaise(p.parsed_shares, byte_index)
                                  => \A c \in GfDivCalls(
                                            PointsAt(p.parsed_shares, byte_index), 0) :
                                         c[1] # 0 /\ c[2] # 0

\* two shares with the same ShareId reach the interpolation, which stops at
\* the equal x-coordinates before it divides
C26_Witness ==
    /\ IsCombineOfCrafted
    /\ Len(call.shares) = 2
    /\ ~result.ok
    /\ result.msg = "Duplicate x-coordinates in interpolation points"


\* C27 as stated: for every secret that generate_shares accepts, the original
\* length L it writes into the header, the number of UTF-8 bytes of the
\* secret, satisfies 0 < L <= 10 000.
Accepted(i) ==
    /\ engines[i].call.op = "generate_shares"
    /\ engines[i].pc # "idle"
    /\ ~(engines[i].pc = "done" /\ engines[i].result.exc = "ValueError")

TablesInverse ==
    /\ {exp_table[i] : i \in 0..254} = 1..255
    /\ \A i \in 0..254 : log_table[exp_table[i]] = i
    /\ \A i \in Instances :
           /\ engines[i].exp_table = exp_table
           /\ engines[i].log_table = log_table

ProductAsBasic ==
    IsField => result.value.product = gf_mult_basic(call.a, call.b)

TablesKept ==
    /\ exp_table' = exp_table
    /\ log_table' = log_table
    /\ \A i \in Instances :
           /\ engines'[i].exp_table = engines[i].exp_table
           /\ engines'[i].log_table = engines[i].log_table

C28_TablesAndBasicProduct ==
    [](TablesInverse /\ ProductAsBasic) /\ [][TablesKept]_vars

\* 2 * 0x8d = 1 by the tables, whose entries 1 and 254 are 3 and its inverse
C28_Witness ==
    /\ IsField
    /\ call.a = 2
    /\ call.b = 141
    /\ result.value.product = 1
    /\ exp_table[1] = 3
    /\ log_table[3] = 1
    /\ exp_table[254] = 246
    /\ log_table[246] = 254


\* C29: every share string that generate_shares returns Base62-decodes to
\* exactly the 5 + P bytes of its frame [ShareId][L][P][values]: P >= 200 and
\* the first byte is not zero, so the text of the frame has at least 250
\* characters, the framer appends no filler (it makes no random draw) and the
\* decoding loses no leading byte.
C29_SharesDecodeToTheirFrames ==
    (IsSplit /\ result.ok)
        => LET secret_bytes == utf8_encode(call.secret.v)
               L      == Len(secret_bytes)
               K      == IntOf(call.threshold)
               padded == PaddedSecret(secret_bytes, call.tape)
               P      == Len(padded)
               raw    == RawShares(padded, call.tape, PaddingNeeded(L) + 1,
                                   IntOf(call.total_shares), K)
           IN  /\ P >= 200
               /\ draws = PaddingNeeded(L) + P * (K - 1)
               /\ Len(result.value) = IntOf(call.total_shares)
               /\ \A j \in 1..Len(result.value) :
                      LET framed == <<j>> \o ToBytes2(L) \o ToBytes2(P)
                                         \o Tail(raw[j])
                      IN  /\ framed[1] # 0
                          /\ Len(framed) = 5 + P
                          /\ Len(result.value[j]) >= 250
                          /\ decode_base62(result.value[j]) = framed

\* a 2-of-2 split of a one-byte secret: 199 padding draws and 200
\* coefficient draws, none for a filler, and texts longer than 250 characters
C29_Witness ==
    /\ IsSplit
    /\ result.ok
    /\ Len(utf8_encode(call.secret.v)) = 1
    /\ IntOf(call.total_shares) = 2
    /\ IntOf(call.threshold) = 2
    /\ draws = 399
    /\ Len(result.value[1]) > 250
    /\ Len(decode_base62(result.value[2])) = 205
    /\ decode_base62(result.value[2])[1] = 2


IsValidatedCombine == call.op = "validate_then_reconstruct"

\* C30: whenever validate_shares(shares) returns (True, ""),
\* reconstruct_secret(shares) on the same list parses every share, meets no
\* duplicate x-coordinate and no length inconsistency, and either returns a
\* string or fails only with "Reconstructed data is not valid UTF-8".
C30_ValidatedListsCombine ==
    (IsValidatedCombine /\ result.value = <<TRUE, "">>)
        => /\ result.combined
           /\ Len(result.parsed) = Len(call.shares)
           /\ \A j \in 1..Len(result.parsed), k \in 1..Len(result.parsed) :
                  /\ j # k => result.parsed[j][1] # result.parsed[k][1]
                  /\ result.parsed[j][2] = result.parsed[k][2]
           /\ IF result.outcome.ok
               THEN IsInstanceStr(result.outcome.value)
               ELSE /\ result.outcome.exc = "ValueError"
                    /\ result.outcome.msg = "Reconstructed data is not valid UTF-8"

\* the first two shares of a split were found valid and gave the secret back
C30_Witness ==
    /\ IsValidatedCombine
    /\ issue.op = "generate_shares"
    /\ call.pick = <<1, 2>>
    /\ result.value = <<TRUE, "">>
    /\ result.parsed = <<<<1, Len(utf8_encode(issue.secret.v))>>,
                         <<2, Len(utf8_encode(issue.secret.v))>>>>
    /\ result.outcome.ok
    /\ result.outcome.value = issue.secret

=============================================================================
